---- MODULE Spec2Model ----
(***************************************************************************)
(* Verification model of the airline market demand analyzer.               *)
(*                                                                         *)
(*  - DataService (app/services/data_service.py): the fallback             *)
(*    orchestrator, one call at a time, stepped source by source.          *)
(*  - DataCleaner (app/services/data_processing.py): the record cleaning   *)
(*    pipeline, one record of the batch per step.                          *)
(*  - BaseApiClient (app/services/base_client.py): _make_request, one      *)
(*    attempt per step.                                                    *)
(*  - RateLimiter (app/utils/rate_limiter.py): one check per step.         *)
(*  - MockDataProvider (app/services/mock_data_provider.py).               *)
(*  - DataProcessor (app/services/data_processing.py): price anomalies and *)
(*    market trends.                                                       *)
(*  - DemandPredictor (app/services/demand_model.py): save and load.       *)
(***************************************************************************)
EXTENDS Integers, Sequences, FiniteSets, TLC

VARIABLES
    clients,           \* DataService.clients: the configured sources
    pc,                \* position of the DataService call in progress
    call,              \* arguments of the call in progress
    source,            \* _with_fallback: the primary source
    fallback_sources,  \* _with_fallback: the fallback list, in order
    fidx,              \* _with_fallback: position of the fallback loop
    invoked,           \* log of func(source) invocations: <<source, outcome>>
    result,            \* the envelope returned to the caller
    raised,            \* the exception that escaped to the caller
    flight_data,       \* DataCleaner: the batch (dicts are cleaned in place)
    raw_input,         \* DataCleaner: the batch as it was passed in
    cleaned_data,      \* DataCleaner: the list being built
    cpos,              \* DataCleaner: index of the next record
    cpc,               \* DataCleaner: "build" before the call, "run" in the loop,
                       \*              "done" once it has returned
    error_log,         \* DataCleaner: logger.error entries: <<index, exception>>
    api,               \* BaseApiClient: its fields and the _make_request in progress
    limiter,           \* RateLimiter: _rate_limit_store and the checks made
    mockp,             \* MockDataProvider: the call in progress and its result
    series,            \* DataProcessor.detect_price_anomalies: input and result
    trend,             \* DataProcessor.calculate_market_trends: input and result
    predictor,         \* DemandPredictor: the predictor, the file, the loaded one
    amadeus,           \* AmadeusClient: its token cache and its concurrent callers
    trainer            \* DemandPredictor: its estimators over train, save and load

svars == <<clients, pc, call, source, fallback_sources, fidx, invoked, result, raised>>
cvars == <<flight_data, raw_input, cleaned_data, cpos, cpc, error_log>>
xvars == <<api, limiter, mockp, series, trend, predictor, amadeus, trainer>>
vars == <<clients, pc, call, source, fallback_sources, fidx, invoked, result, raised,
          flight_data, raw_input, cleaned_data, cpos, cpc, error_log,
          api, limiter, mockp, series, trend, predictor, amadeus,
          trainer>>

(***************************************************************************)
(* DataService                                                             *)
(***************************************************************************)

DataSource == {"AMADEUS", "RAPIDAPI", "AVIATIONSTACK", "MOCK"}

LiveSources == DataSource \ {"MOCK"}

\* _init_clients: each live client exists iff its credentials are set; the
\* mock provider is always registered.
ClientSets == {c \in SUBSET DataSource : "MOCK" \in c}

Operations == {"get_airports", "search_flight_offers", "get_market_data",
               "get_airport_analytics"}

\* What one func(source) invocation can do, as _with_fallback sees it:
\*   raise       an exception
\*   none        returns None
\*   empty       returns an empty list / empty dict
\*   live        returns data of the provider's live API
\*   clientmock  returns the provider client's own mock payload
\*   synthetic   returns MockDataProvider data
Outcomes == {"raise", "none", "empty", "live", "clientmock", "synthetic"}

\* fetch_airports(source): AMADEUS returns None; RapidApiClient defines no
\* get_airports (AttributeError); AviationStackClient.get_airports returns a
\* dict whose "data" list may be empty (a JSON null response makes .get
\* raise); MOCK filters the fixed airport list (a non-string filter raises).
fetch_airports(src, args_ok) ==
    CASE src = "AMADEUS"       -> {"none"}
      [] src = "RAPIDAPI"      -> {"raise"}
      [] src = "AVIATIONSTACK" -> {"raise", "empty", "live", "clientmock"}
      [] src = "MOCK"          -> IF args_ok THEN {"empty", "synthetic"} ELSE {"raise"}

\* fetch_flights(source): AmadeusClient defines no search_flights
\* (AttributeError); RapidApiClient.search_flights validates, calls the API and
\* returns the processed dict, the raw falsy response or its own mock payload;
\* AVIATIONSTACK returns None; MOCK parses the dates (ValueError when they are
\* not %Y-%m-%d) and generates flights (none when date_to < date_from).
fetch_flights(src, args_ok) ==
    CASE src = "AMADEUS"       -> {"raise"}
      [] src = "RAPIDAPI"      -> {"raise", "none", "empty", "live", "clientmock"}
      [] src = "AVIATIONSTACK" -> {"none"}
      [] src = "MOCK"          -> IF args_ok THEN {"empty", "synthetic"} ELSE {"raise"}

func(op, src, args_ok) ==
    IF op = "get_airports" THEN fetch_airports(src, args_ok)
                           ELSE fetch_flights(src, args_ok)

\* The envelope handed back to the caller.  fallback / is_mock / warning are
\* FALSE when the key is absent (the code only ever sets them to True).
Envelope(data, origin, src, fb, mock, warn) ==
    [data |-> data, origin |-> origin, source |-> src, fallback |-> fb,
     is_mock |-> mock, warning |-> warn]

NoEnvelope == Envelope("unset", "none", "none", FALSE, FALSE, FALSE)

NoCall == [op |-> "none", use_real_data |-> FALSE, args_ok |-> TRUE,
           filters |-> "none", airport_known |-> TRUE]

Filters == {"none", "max_price", "airlines"}

\* primary_source = AMADEUS if use_real_data and AMADEUS in self.clients else MOCK
primary_source(urd) ==
    IF urd /\ "AMADEUS" \in clients THEN "AMADEUS" ELSE "MOCK"

airports_fallback_sources == <<"RAPIDAPI", "AVIATIONSTACK", "MOCK">>

flights_fallback_sources == <<"RAPIDAPI", "MOCK">>

\* `if result is not None`
IsResult(out) == out \notin {"raise", "none"}

\* which component produced the data of an outcome
DataOrigin(src, out) ==
    IF src = "MOCK" THEN "MockDataProvider"
    ELSE IF out = "clientmock" THEN "clientmock" ELSE src

\* return {"data": result, "source": source.name}
PrimaryEnvelope(src, out) ==
    Envelope(out, DataOrigin(src, out), src, FALSE, FALSE, FALSE)

FallbackEnvelope_NoFlag(fs, out) ==
    Envelope(out, DataOrigin(fs, out), fs, FALSE, FALSE, FALSE)

\* return {"data": result, "source": fallback_source.name, "fallback": True}
FallbackEnvelope(fs, out) ==
    Envelope(out, DataOrigin(fs, out), fs, TRUE, FALSE, FALSE)

SvcInit ==
    /\ clients \in ClientSets
    /\ pc = "idle"
    /\ call = NoCall
    /\ source = "MOCK"
    /\ fallback_sources = <<>>
    /\ fidx = 1
    /\ invoked = <<>>
    /\ result = NoEnvelope
    /\ raised = "none"

StartChain(op, urd, ok, flt, fbs) ==
    /\ pc = "idle"
    /\ call' = [op |-> op, use_real_data |-> urd, args_ok |-> ok,
                filters |-> flt, airport_known |-> TRUE]
    /\ source' = primary_source(urd)
    /\ fallback_sources' = IF urd THEN fbs ELSE <<>>
    /\ fidx' = 1
    /\ invoked' = <<>>
    /\ result' = NoEnvelope
    /\ raised' = "none"
    /\ pc' = "primary"
    /\ UNCHANGED clients
    /\ UNCHANGED <<cvars, xvars>>

\* get_airports up to the call of _with_fallback
get_airports ==
    \E urd \in BOOLEAN, ok \in BOOLEAN :
        StartChain("get_airports", urd, ok, "none", airports_fallback_sources)

\* search_flight_offers up to the call of _with_fallback
search_flight_offers ==
    \E urd \in BOOLEAN, ok \in BOOLEAN, flt \in Filters :
        StartChain("search_flight_offers", urd, ok, flt, flights_fallback_sources)

\* _with_fallback, "Try primary source first"
TryPrimary ==
    /\ pc = "primary"
    /\ IF source \in clients
       THEN \E out \in func(call.op, source, call.args_ok) :
                /\ invoked' = Append(invoked, <<source, out>>)
                /\ IF IsResult(out)
                   THEN /\ result' = PrimaryEnvelope(source, out)
                        /\ pc' = "returned"
                   ELSE /\ result' = result
                        /\ pc' = "fallback"
       ELSE /\ pc' = "fallback"
            /\ UNCHANGED <<invoked, result>>
    /\ UNCHANGED <<clients, call, source, fallback_sources, fidx, raised>>
    /\ UNCHANGED <<cvars, xvars>>

FallbackEligible_NoPrimaryCheck(fs) == fs \in clients

\* `if fallback_source in self.clients and fallback_source != source`
FallbackEligible(fs) == fs \in clients /\ fs # source

\* _with_fallback, one iteration of "for fallback_source, description in ..."
TryFallback ==
    /\ pc = "fallback"
    /\ fidx <= Len(fallback_sources)
    /\ LET fs == fallback_sources[fidx] IN
       IF FallbackEligible(fs)
       THEN \E out \in func(call.op, fs, call.args_ok) :
                /\ invoked' = Append(invoked, <<fs, out>>)
                /\ IF IsResult(out)
                   THEN /\ result' = FallbackEnvelope(fs, out)
                        /\ pc' = "returned"
                        /\ fidx' = fidx
                   ELSE /\ result' = result
                        /\ pc' = "fallback"
                        /\ fidx' = fidx + 1
       ELSE /\ fidx' = fidx + 1
            /\ UNCHANGED <<invoked, result, pc>>
    /\ UNCHANGED <<clients, call, source, fallback_sources, raised>>
    /\ UNCHANGED <<cvars, xvars>>

\* _with_fallback, "If we get here, all sources failed": DataServiceError
AllSourcesFailed ==
    /\ pc = "fallback"
    /\ fidx > Len(fallback_sources)
    /\ pc' = "failed"
    /\ UNCHANGED <<clients, call, source, fallback_sources, fidx, invoked,
                   result, raised>>
    /\ UNCHANGED <<cvars, xvars>>

\* get_airports after _with_fallback: the envelope is returned as it is; on
\* DataServiceError the unfiltered mock airports are returned with a warning.
AirportsReturn ==
    /\ call.op = "get_airports"
    /\ pc \in {"returned", "failed"}
    /\ IF pc = "returned"
       THEN result' = result
       ELSE result' = Envelope("synthetic", "MockDataProvider", "mock",
                               FALSE, FALSE, TRUE)
    /\ pc' = "done"
    /\ UNCHANGED <<clients, call, source, fallback_sources, fidx, invoked, raised>>
    /\ UNCHANGED <<cvars, xvars>>

\* search_flight_offers after _with_fallback.  Post-processing runs only on
\* truthy data: the max_price filter calls .get on a float price (mock
\* flights) or on a dict key (RapidAPI dict), and the airline filter ends in
\* result["meta"]["count"], a key the envelope does not have; either way an
\* exception that is not DataServiceError leaves the method.  The except
\* branch re-parses the dates before it builds the mock envelope.
FlightsReturn ==
    /\ call.op = "search_flight_offers"
    /\ pc \in {"returned", "failed"}
    /\ IF pc = "returned"
       THEN IF result.data # "empty" /\ call.filters # "none"
            THEN /\ raised' = IF call.filters = "max_price"
                              THEN "AttributeError" ELSE "KeyError"
                 /\ result' = NoEnvelope
            ELSE UNCHANGED <<result, raised>>
       ELSE IF call.args_ok
            THEN /\ result' = Envelope("synthetic", "MockDataProvider", "mock",
                                       FALSE, TRUE, TRUE)
                 /\ raised' = raised
            ELSE /\ raised' = "ValueError"
                 /\ result' = result
    /\ pc' = "done"
    /\ UNCHANGED <<clients, call, source, fallback_sources, fidx, invoked>>
    /\ UNCHANGED <<cvars, xvars>>

\* get_market_data: always the mock provider, tagged with a warning
get_market_data ==
    /\ pc = "idle"
    /\ \E urd \in BOOLEAN :
        call' = [NoCall EXCEPT !.op = "get_market_data", !.use_real_data = urd]
    /\ result' = Envelope("synthetic", "MockDataProvider", "mock",
                          FALSE, FALSE, TRUE)
    /\ raised' = "none"
    /\ invoked' = <<>>
    /\ pc' = "done"
    /\ UNCHANGED <<clients, source, fallback_sources, fidx>>
    /\ UNCHANGED <<cvars, xvars>>

\* get_airport_analytics: `use_real_data and self.amadeus_client` reads an
\* attribute DataService never sets (AttributeError); otherwise the mock
\* provider answers, and raises ValueError for an airport it does not know.
get_airport_analytics ==
    /\ pc = "idle"
    /\ \E urd \in BOOLEAN, known \in BOOLEAN :
        /\ call' = [NoCall EXCEPT !.op = "get_airport_analytics",
                                  !.use_real_data = urd, !.airport_known = known]
        /\ IF urd
           THEN /\ raised' = "AttributeError"
                /\ result' = NoEnvelope
           ELSE IF known
                THEN /\ raised' = "none"
                     /\ result' = Envelope("synthetic", "MockDataProvider", "mock",
                                           FALSE, FALSE, TRUE)
                ELSE /\ raised' = "ValueError"
                     /\ result' = NoEnvelope
    /\ invoked' = <<>>
    /\ pc' = "done"
    /\ UNCHANGED <<clients, source, fallback_sources, fidx>>
    /\ UNCHANGED <<cvars, xvars>>

\* the caller has its answer; the service is ready for the next call
Finish ==
    /\ pc = "done"
    /\ pc' = "idle"
    /\ UNCHANGED <<clients, call, source, fallback_sources, fidx, invoked,
                   result, raised>>
    /\ UNCHANGED <<cvars, xvars>>

(***************************************************************************)
(* DataService: properties                                                 *)
(***************************************************************************)

InChain == call.op \in {"get_airports", "search_flight_offers"}

\* the last func(source) invocation of the chain
LastInvoked == invoked[Len(invoked)]

\* C1: when _with_fallback returns, the envelope's source is the name of the
\* source whose result it carries; a result of the primary source has no
\* fallback flag, and a result of a later source has fallback = True and is
\* returned only after the primary was invoked without a result (or is not
\* configured).
C1_WinnerTagged ==
    pc = "returned" =>
        /\ Len(invoked) >= 1
        /\ result.source = LastInvoked[1]
        /\ result.data = LastInvoked[2]
        /\ LastInvoked[1] = source =>
              /\ ~result.fallback
              /\ Len(invoked) = 1
        /\ LastInvoked[1] # source =>
              /\ result.fallback
              /\ \/ source \notin clients
                 \/ /\ invoked[1][1] = source
                    /\ invoked[1][2] \in {"raise", "none"}

C1_Witness ==
    /\ pc = "returned"
    /\ source = "AMADEUS"
    /\ Len(invoked) = 3
    /\ result.source = "AVIATIONSTACK"
    /\ result.fallback

\* C2: when every configured live source fails, get_airports and
\* search_flight_offers return synthetic data tagged is_mock = True with a
\* warning string.
C2_SyntheticIsTagged ==
    ( /\ pc = "done"
      /\ InChain
      /\ call.use_real_data
      /\ call.args_ok
      /\ call.filters = "none"
      /\ \E i \in 1..Len(invoked) : invoked[i][1] \in LiveSources
      /\ \A i \in 1..Len(invoked) :
            invoked[i][1] \in LiveSources => invoked[i][2] \in {"raise", "none"} )
    => /\ raised = "none"
       /\ result.origin = "MockDataProvider"
       /\ result.is_mock
       /\ result.warning

\* C3: every orchestrated operation returns a data envelope and raises
\* nothing, for every use_real_data and every outcome of the live providers.
C3_NeverRaises ==
    (pc = "done" /\ call.args_ok /\ call.airport_known /\ call.filters = "none")
    => /\ raised = "none"
       /\ result.data # "unset"

\* the order in which _with_fallback may invoke sources: the primary, then
\* the fallback list, configured sources only, the primary not again
ExpectedOrder ==
    SelectSeq(<<source>>, LAMBDA s : s \in clients)
    \o SelectSeq(fallback_sources, LAMBDA s : s \in clients /\ s # source)

\* C4: within one _with_fallback call the sources are invoked in the order
\* primary, then the fallback list; each only after all earlier ones were
\* invoked without a result, none after a result, none twice; the call
\* returns the result of the first source that had one and gives up only
\* after all were invoked.
C4_PriorityOrder ==
    (InChain /\ pc # "idle") =>
        /\ Len(invoked) <= Len(ExpectedOrder)
        /\ \A i \in 1..Len(invoked) : invoked[i][1] = ExpectedOrder[i]
        /\ \A i \in 1..(Len(invoked) - 1) : ~IsResult(invoked[i][2])
        /\ \A i, j \in 1..Len(invoked) : i # j => invoked[i][1] # invoked[j][1]
        /\ pc = "returned" =>
              /\ IsResult(LastInvoked[2])
              /\ result.source = LastInvoked[1]
        /\ pc = "failed" =>
              /\ Len(invoked) = Len(ExpectedOrder)
              /\ \A i \in 1..Len(invoked) : ~IsResult(invoked[i][2])

C4_Witness ==
    /\ pc = "returned"
    /\ Len(invoked) = 3
    /\ invoked[1][1] = "AMADEUS"
    /\ invoked[2][1] = "RAPIDAPI"
    /\ invoked[3][1] = "AVIATIONSTACK"

\* the live providers whose client implements the operation
LiveSupporting(op) ==
    IF op = "get_airports" THEN {"AVIATIONSTACK"} ELSE {"RAPIDAPI"}

\* C5: with use_real_data = False no live client is invoked and the result is
\* synthetic; with use_real_data = True every configured live provider that
\* supports the operation is tried before synthetic data is returned.
C5_SourceSelection ==
    (pc = "done" /\ InChain /\ raised = "none") =>
        /\ ~call.use_real_data =>
              /\ \A i \in 1..Len(invoked) : invoked[i][1] = "MOCK"
              /\ result.origin = "MockDataProvider"
        /\ (call.use_real_data /\ result.origin = "MockDataProvider") =>
              \A s \in LiveSupporting(call.op) \cap clients :
                  \E i \in 1..Len(invoked) : invoked[i][1] = s

\* C6: a source that returns an empty result ([] or {}) is treated like a
\* failed one: the chain goes on to the next configured source, so an empty
\* result of a live provider never ends the chain while a source is left to
\* try.
C6_EmptyIsFailure ==
    ( /\ pc = "returned"
      /\ result.source \in LiveSources
      /\ result.data \in {"empty", "none"} )
    => Len(invoked) = Len(ExpectedOrder)

(***************************************************************************)
(* Python values of record fields                                          *)
(*                                                                         *)
(* A value is [t, s, n]: t its Python type, s the characters of a str, n   *)
(* the number of an int, or of a float in hundredths.  A record (dict) is a *)
(* function from its keys to values.                                       *)
(***************************************************************************)

PyStr(s)   == [t |-> "str",   s |-> s,    n |-> 0]
PyInt(k)   == [t |-> "int",   s |-> <<>>, n |-> k]
PyFloat(h) == [t |-> "float", s |-> <<>>, n |-> h]
Inf      == [t |-> "inf",   s |-> <<>>, n |-> 0]   \* float('inf')
Obj      == [t |-> "obj",   s |-> <<>>, n |-> 0]   \* a datetime, a list, ...
None     == [t |-> "none",  s |-> <<>>, n |-> 0]

\* bool(v)
Truthy(v) ==
    CASE v.t = "str"              -> v.s # <<>>
      [] v.t \in {"int", "float"} -> v.n # 0
      [] v.t = "none"             -> FALSE
      [] OTHER                    -> TRUE

\* isinstance(v, (int, float))
IsNumber(v) == v.t \in {"int", "float", "inf"}

DigitSeq == <<"0", "1", "2", "3", "4", "5", "6", "7", "8", "9">>
LowerSeq == <<"a", "b", "c", "d", "e", "f", "g", "h", "i", "j", "k", "l", "m",
              "n", "o", "p", "q", "r", "s", "t", "u", "v", "w", "x", "y", "z">>
UpperSeq == <<"A", "B", "C", "D", "E", "F", "G", "H", "I", "J", "K", "L", "M",
              "N", "O", "P", "Q", "R", "S", "T", "U", "V", "W", "X", "Y", "Z">>

Range(q) == {q[i] : i \in 1..Len(q)}
IndexOf(q, c) == CHOOSE i \in 1..Len(q) : q[i] = c

Digits == Range(DigitSeq)
Letters == Range(LowerSeq) \cup Range(UpperSeq)
Lowers == Range(LowerSeq)
isdigit(c) == c \in Digits
isalpha(c) == c \in Letters
DigitVal(c) == IndexOf(DigitSeq, c) - 1

\* str.upper(), one character
upper_char(c) == IF c \in Lowers THEN UpperSeq[IndexOf(LowerSeq, c)] ELSE c

upper(q) == [i \in 1..Len(q) |-> upper_char(q[i])]

RECURSIVE lstrip(_)
lstrip(q) == IF q # <<>> /\ Head(q) = " " THEN lstrip(Tail(q)) ELSE q

RECURSIVE rstrip(_)
rstrip(q) ==
    IF q # <<>> /\ q[Len(q)] = " " THEN rstrip(SubSeq(q, 1, Len(q) - 1)) ELSE q

\* str.strip()
strip(q) == rstrip(lstrip(q))

\* the decimal digits of a natural number
RECURSIVE NatChars(_)
NatChars(k) ==
    IF k < Len(DigitSeq) THEN <<DigitSeq[k + 1]>>
    ELSE NatChars(k \div Len(DigitSeq)) \o <<DigitSeq[(k % Len(DigitSeq)) + 1]>>

\* the number a digit string denotes
RECURSIVE DigitsVal(_)
DigitsVal(q) ==
    IF q = <<>> THEN 0
    ELSE DigitsVal(SubSeq(q, 1, Len(q) - 1)) * Len(DigitSeq) + DigitVal(q[Len(q)])

\* str(v)
pystr(v) ==
    CASE v.t = "str"  -> v.s
      [] v.t = "int"  -> IF v.n < 0 THEN <<"-">> \o NatChars(-v.n) ELSE NatChars(v.n)
      [] v.t = "none" -> <<"N", "o", "n", "e">>
      [] v.t = "inf"  -> <<"i", "n", "f">>
      [] OTHER        -> <<"<", "?", ">">>

EmptyRec == [k \in {} |-> None]
Put(r, k, v) == [x \in DOMAIN r \cup {k} |-> IF x = k THEN v ELSE r[x]]
Del(r, k) == [x \in DOMAIN r \ {k} |-> r[x]]
RawKey(f) == f \o "_raw"

\* the state of one record inside the try block: the dict, and the exception
\* that left the block ("none" while none has)
St(rec, exc) == [rec |-> rec, exc |-> exc]

\* flight[f"{field}_raw"] = raw; del flight[field]
Quarantine(flight, field, raw) == Del(Put(flight, RawKey(field), raw), field)

(***************************************************************************)
(* Dates.  A date string is written <<"T", d>> in ISO-8601 and <<"t", d>>  *)
(* in another spelling dateutil understands, for the instant d (one digit); *)
(* any other string is not a date.                                         *)
(***************************************************************************)

IsDateText(q) == Len(q) = 2 /\ q[1] \in {"T", "t"} /\ isdigit(q[2])
IsIsoText(q) == Len(q) = 2 /\ q[1] = "T" /\ isdigit(q[2])
Instant(q) == DigitVal(q[2])

\* datetime.isoformat()
isoformat(d) == <<"T", DigitSeq[d + 1]>>

\* datetime.fromtimestamp(v): the exception it raises, "none" when it returns
fromtimestamp_exc(v) ==
    CASE v.t = "inf"                              -> "OverflowError"
      [] v.n < 0 \/ v.n >= Len(DigitSeq)          -> "ValueError"
      [] OTHER                                    -> "none"

\* one iteration of the loop of _standardize_dates
standardize_date(flight, field) ==
    IF field \in DOMAIN flight /\ Truthy(flight[field])
    THEN LET v == flight[field] IN
         IF IsNumber(v)
         THEN CASE fromtimestamp_exc(v) = "none" ->
                       St(Put(flight, field, PyStr(isoformat(v.n))), "none")
                [] fromtimestamp_exc(v) = "ValueError" ->
                       St(Quarantine(flight, field, v), "none")
                [] OTHER -> St(flight, fromtimestamp_exc(v))
         ELSE IF v.t = "str"
              THEN IF IsDateText(v.s)
                   THEN St(Put(flight, field, PyStr(isoformat(Instant(v.s)))), "none")
                   ELSE St(Quarantine(flight, field, v), "none")
              ELSE St(flight, "none")
    ELSE St(flight, "none")

date_fields == <<"departure_time", "arrival_time", "booking_date",
                 "created_at", "updated_at">>

RECURSIVE standardize_dates_from(_, _)
standardize_dates_from(st, i) ==
    IF i > Len(date_fields) \/ st.exc # "none" THEN st
    ELSE standardize_dates_from(standardize_date(st.rec, date_fields[i]), i + 1)

_standardize_dates(flight) == standardize_dates_from(St(flight, "none"), 1)

(***************************************************************************)
(* Airport and airline codes                                               *)
(***************************************************************************)

code_fields == <<"origin", "destination", "operating_airline", "marketing_airline">>

\* code = str(flight[code_field]).strip().upper()
normalize_code(v) == upper(strip(pystr(v)))

\* 2 <= len(code) <= 4 and code.isalpha()
valid_code(code) ==
    /\ 2 <= Len(code)
    /\ Len(code) <= 4
    /\ \A i \in 1..Len(code) : isalpha(code[i])

\* one iteration of the loop of _clean_airport_codes
clean_code(flight, field) ==
    IF field \in DOMAIN flight /\ Truthy(flight[field])
    THEN LET code == normalize_code(flight[field]) IN
         IF valid_code(code)
         THEN Put(flight, field, PyStr(code))
         ELSE Quarantine(flight, field, PyStr(code))
    ELSE flight

RECURSIVE clean_codes_from(_, _)
clean_codes_from(flight, i) ==
    IF i > Len(code_fields) THEN flight
    ELSE clean_codes_from(clean_code(flight, code_fields[i]), i + 1)

_clean_airport_codes(flight) == St(clean_codes_from(flight, 1), "none")

(***************************************************************************)
(* Numeric fields                                                          *)
(***************************************************************************)

numeric_fields == <<"price", "base_fare", "taxes", "fees", "available_seats",
                    "total_seats", "flight_duration", "distance",
                    "baggage_allowance">>

\* ''.join(c for c in s if c.isdigit() or c in '.-')
numeric_chars(q) == SelectSeq(q, LAMBDA c : isdigit(c) \/ c \in {".", "-"})

HasDot(q) == \E i \in 1..Len(q) : q[i] = "."
AllDigits(q) == \A i \in 1..Len(q) : isdigit(q[i])
Unsigned(q) == IF q # <<>> /\ Head(q) = "-" THEN Tail(q) ELSE q
Sign(q) == IF q # <<>> /\ Head(q) = "-" THEN -1 ELSE 1

\* int(value) returns
int_ok(q) == Unsigned(q) # <<>> /\ AllDigits(Unsigned(q))

\* float(value) returns, for a value with a '.'
float_ok(q) ==
    LET u == Unsigned(q)
        dot == CHOOSE i \in 1..Len(u) : u[i] = "."
        ip == SubSeq(u, 1, dot - 1)
        fp == SubSeq(u, dot + 1, Len(u))
    IN /\ HasDot(u)
       /\ AllDigits(ip)
       /\ AllDigits(fp)
       /\ ip \o fp # <<>>

\* the hundredths of float(value); two decimals are kept
float_hundredths(q) ==
    LET u == Unsigned(q)
        dot == CHOOSE i \in 1..Len(u) : u[i] = "."
        ip == SubSeq(u, 1, dot - 1)
        fp == SubSeq(u \o <<"0", "0">>, dot + 1, dot + 2)
    IN Sign(q) * (DigitsVal(ip) * 100 + DigitsVal(fp))

parse_numeric_always_float(q) ==
    IF HasDot(q)
    THEN IF float_ok(q) THEN St(PyFloat(float_hundredths(q)), "none")
                        ELSE St(None, "ValueError")
    ELSE IF int_ok(q) THEN St(PyFloat(Sign(q) * DigitsVal(Unsigned(q)) * 100), "none")
                      ELSE St(None, "ValueError")

\* float(value) if '.' in value else int(value): the number, or ValueError
parse_numeric(q) ==
    IF HasDot(q)
    THEN IF float_ok(q) THEN St(PyFloat(float_hundredths(q)), "none")
                        ELSE St(None, "ValueError")
    ELSE IF int_ok(q) THEN St(PyInt(Sign(q) * DigitsVal(Unsigned(q))), "none")
                      ELSE St(None, "ValueError")

\* float(flight[field]) of a value that is not a str
to_float(v) ==
    CASE v.t = "int"   -> St(PyFloat(v.n * 100), "none")
      [] v.t = "float" -> St(v, "none")
      [] v.t = "inf"   -> St(v, "none")
      [] OTHER         -> St(None, "TypeError")

\* if flight[field] < 0: flight[field] = abs(flight[field])
non_negative(v) == IF v.t \in {"int", "float"} /\ v.n < 0 THEN [v EXCEPT !.n = -v.n] ELSE v

\* one iteration of the loop of _clean_numeric_fields
clean_numeric(flight, field) ==
    IF field \in DOMAIN flight /\ flight[field].t # "none"
    THEN LET v == flight[field]
             conv == IF v.t = "str" THEN parse_numeric(numeric_chars(v.s))
                                    ELSE to_float(v)
         IN IF conv.exc = "none"
            THEN Put(flight, field, non_negative(conv.rec))
            ELSE Quarantine(flight, field, v)
    ELSE flight

RECURSIVE clean_numerics_from(_, _)
clean_numerics_from(flight, i) ==
    IF i > Len(numeric_fields) THEN flight
    ELSE clean_numerics_from(clean_numeric(flight, numeric_fields[i]), i + 1)

_clean_numeric_fields(flight) == St(clean_numerics_from(flight, 1), "none")

(***************************************************************************)
(* Flight number and airline codes                                         *)
(***************************************************************************)

\* int(...) of the flight number: digits of a str, the value of a number
flight_number_int(v) ==
    CASE v.t = "str" ->
             LET d == SelectSeq(v.s, isdigit) IN
             IF d = <<>> THEN St(None, "ValueError") ELSE St(PyInt(DigitsVal(d)), "none")
      [] v.t = "int"   -> St(v, "none")
      [] v.t = "float" -> St(PyInt(IF v.n < 0 THEN -((-v.n) \div 100) ELSE v.n \div 100), "none")
      [] v.t = "inf"   -> St(None, "OverflowError")
      [] OTHER         -> St(None, "TypeError")

airline_fields == <<"operating_airline", "marketing_airline">>

\* flight[airline_field] = flight[airline_field].upper()
upper_airline(st, field) ==
    IF st.exc = "none" /\ field \in DOMAIN st.rec /\ Truthy(st.rec[field])
    THEN IF st.rec[field].t = "str"
         THEN St(Put(st.rec, field, PyStr(upper(st.rec[field].s))), "none")
         ELSE St(st.rec, "AttributeError")
    ELSE st

_clean_airline_info(flight) ==
    LET fn == IF "flight_number" \in DOMAIN flight /\ Truthy(flight["flight_number"])
              THEN LET conv == flight_number_int(flight["flight_number"]) IN
                   CASE conv.exc = "none" ->
                            St(Put(flight, "flight_number", conv.rec), "none")
                     [] conv.exc \in {"ValueError", "TypeError"} ->
                            St(Quarantine(flight, "flight_number",
                                          flight["flight_number"]), "none")
                     [] OTHER -> St(flight, conv.exc)
              ELSE St(flight, "none")
    IN upper_airline(upper_airline(fn, airline_fields[1]), airline_fields[2])

(***************************************************************************)
(* Derived fields                                                          *)
(***************************************************************************)

\* flight.get(key, '')
Get(flight, key) == IF key \in DOMAIN flight THEN flight[key] ELSE PyStr(<<>>)

RECURSIVE join(_)
join(parts) ==
    IF parts = <<>> THEN <<>>
    ELSE IF Len(parts) = 1 THEN Head(parts).s
    ELSE Head(parts).s \o <<"_">> \o join(Tail(parts))

\* the parts of the synthesized id that are truthy
id_parts(flight) ==
    SelectSeq(<<Get(flight, "operating_airline"),
                PyStr(pystr(Get(flight, "flight_number"))),
                Get(flight, "origin"),
                Get(flight, "departure_time")>>, Truthy)

\* (arr_time - dep_time).total_seconds() / 60, as a float
duration(dep, arr) == PyFloat(100 * (arr - dep))

\* the cabin of an upper-cased booking class, "unset" when it has none
cabin_class(bc) ==
    CASE bc \in {<<"F">>, <<"A">>, <<"P">>} -> "First"
      [] bc \in {<<"J">>, <<"C">>, <<"D">>, <<"I">>, <<"Z">>} -> "Business"
      [] bc \in {<<"W">>, <<"E">>, <<"Y">>, <<"B">>, <<"M">>, <<"H">>, <<"Q">>,
                 <<"K">>, <<"L">>, <<"V">>, <<"S">>, <<"N">>} -> "Economy"
      [] OTHER -> "unset"

CabinText(c) ==
    CASE c = "First"    -> <<"F", "i", "r", "s", "t">>
      [] c = "Business" -> <<"B", "u", "s", "i", "n", "e", "s", "s">>
      [] OTHER          -> <<"E", "c", "o", "n", "o", "m", "y">>

add_id(flight) ==
    IF "id" \in DOMAIN flight THEN St(flight, "none")
    ELSE IF \E i \in 1..Len(id_parts(flight)) : id_parts(flight)[i].t # "str"
         THEN St(flight, "TypeError")
         ELSE St(Put(flight, "id", PyStr(join(id_parts(flight)))), "none")

add_duration(flight) ==
    IF /\ "flight_duration" \notin DOMAIN flight
       /\ "departure_time" \in DOMAIN flight
       /\ "arrival_time" \in DOMAIN flight
    THEN LET dep == flight["departure_time"]
             arr == flight["arrival_time"]
         IN IF /\ dep.t = "str" /\ IsIsoText(dep.s)
               /\ arr.t = "str" /\ IsIsoText(arr.s)
            THEN Put(flight, "flight_duration", duration(Instant(dep.s), Instant(arr.s)))
            ELSE flight
    ELSE flight

add_cabin_class(flight) ==
    IF "booking_class" \in DOMAIN flight /\ flight["booking_class"].t = "str"
    THEN LET c == cabin_class(upper(flight["booking_class"].s)) IN
         IF c = "unset" THEN flight ELSE Put(flight, "cabin_class", PyStr(CabinText(c)))
    ELSE flight

_add_derived_fields(flight) ==
    LET a == add_id(flight) IN
    IF a.exc # "none" THEN a
    ELSE St(add_cabin_class(add_duration(a.rec)), "none")

(***************************************************************************)
(* clean_flight_data                                                       *)
(***************************************************************************)

\* the body of the try block for one record: each stage runs unless an
\* exception is already on its way out of the block
clean_flight(flight) ==
    LET s1 == _standardize_dates(flight)
        s2 == IF s1.exc = "none" THEN _clean_airport_codes(s1.rec) ELSE s1
        s3 == IF s2.exc = "none" THEN _clean_numeric_fields(s2.rec) ELSE s2
        s4 == IF s3.exc = "none" THEN _clean_airline_info(s3.rec) ELSE s3
    IN IF s4.exc = "none" THEN _add_derived_fields(s4.rec) ELSE s4

(***************************************************************************)
(* The batches clean_flight_data is run on                                 *)
(***************************************************************************)

\* at most MaxRecords records in a batch, with at most MaxFields populated
\* fields between them
MaxRecords == 2
MaxFields == 2

InputFields == <<"departure_time", "arrival_time", "origin", "operating_airline",
                 "price", "available_seats", "flight_duration", "flight_number",
                 "booking_class", "id">>

\* the raw values a field takes in the batches
FieldValues(f) ==
    CASE f = "departure_time" ->
             {PyStr(<<"T", "2">>), PyStr(<<"t", "2">>), PyStr(<<"x">>),
              PyInt(3), Inf, Obj}
      [] f = "arrival_time" ->
             {PyStr(<<"T", "1">>), PyStr(<<"T", "5">>)}
      [] f = "origin" ->
             {PyStr(<<"S", "Y", "D">>), PyStr(<<" ", "s", "y", "d", " ">>),
              PyStr(<<"s", "1">>), PyStr(<<>>)}
      [] f = "operating_airline" ->
             {PyStr(<<"q", "f">>)}
      [] f = "price" ->
             {PyStr(<<"$", "1", ".", "5">>), PyStr(<<"1", ",", "2", "0", "0">>),
              PyStr(<<"-", "5">>), PyStr(<<"N", "/", "A">>), PyInt(-3)}
      [] f = "available_seats" ->
             {PyStr(<<"1", "5", "0">>)}
      [] f = "flight_duration" ->
             {PyInt(9), PyStr(<<"x">>)}
      [] f = "flight_number" ->
             {PyStr(<<"Q", "F", "4">>), PyStr(<<"Q", "F">>), Inf}
      [] f = "booking_class" ->
             {PyStr(<<"Y">>), PyStr(<<"j">>), PyStr(<<"F">>), PyStr(<<"W">>),
              PyStr(<<"X">>)}
      [] f = "id" ->
             {PyStr(<<"X", "1">>)}

\* the records over the first i input fields with at most k populated fields
RECURSIVE RecordsOver(_, _)
RecordsOver(i, k) ==
    IF i = 0 THEN {EmptyRec}
    ELSE LET prev == RecordsOver(i - 1, k) IN
         prev \cup UNION {{Put(r, InputFields[i], v) : v \in FieldValues(InputFields[i])} :
                          r \in {q \in prev : Cardinality(DOMAIN q) < k}}

RawRecords == RecordsOver(Len(InputFields), MaxFields)

\* the raw records by their number of populated fields
RecordsOfSize == [j \in 0..MaxFields |-> {r \in RawRecords : Cardinality(DOMAIN r) = j}]

\* the populated fields of a batch, in all
RECURSIVE Populated(_)
Populated(batch) ==
    IF batch = <<>> THEN 0
    ELSE Cardinality(DOMAIN Head(batch)) + Populated(Tail(batch))

(***************************************************************************)
(* Specifications                                                          *)
(***************************************************************************)

\* the cleaner is not running
(***************************************************************************)
(* BaseApiClient                                                           *)
(***************************************************************************)

\* None, where the field otherwise holds a number
Unset == -1

\* at most MaxSent HTTP requests are followed, up to time MaxClock
MaxSent == 3
MaxClock == 2

\* the constructor arguments followed: rate_limit = None or (N, W)
NoRateLimit == <<>>
RateLimits == {NoRateLimit, <<2, 2>>}
RetryChoices == {0, 1, 2}

NoError == [kind |-> "none", status_code |-> 0, details |-> FALSE, retry_after |-> 0]

NoOutcome == [kind |-> "none", exc |-> NoError]

\* BaseApiClient.__init__
NewApiClient(rate_limit, max_retries) ==
    [rate_limit |-> rate_limit,
     max_retries |-> max_retries,
     retry_delay |-> 1,
     rate_limit_remaining |-> IF rate_limit = NoRateLimit THEN Unset ELSE rate_limit[1],
     rate_limit_reset |-> Unset,
     last_request_time |-> Unset,
     now |-> 0,
     pc |-> "idle",
     use_mock_fallback |-> TRUE,
     retry_count |-> 0,
     last_error |-> NoError,
     attempts |-> <<>>,
     sleeps |-> <<>>,
     sent |-> <<>>,
     outcome |-> NoOutcome]

ApiIdle == api = NewApiClient(NoRateLimit, 0)

\* what the HTTP layer can answer to one request
Responses ==
    {[kind |-> "RequestError", status_code |-> 0, json |-> FALSE, retry_after |-> 0]}
    \cup {[kind |-> "response", status_code |-> st, json |-> j, retry_after |-> 0] :
             st \in {200, 500}, j \in BOOLEAN}
    \cup {[kind |-> "response", status_code |-> 429, json |-> TRUE, retry_after |-> ra] :
             ra \in {0, 2}}

\* the rate limit headers of a response: none, or X-RateLimit-Remaining with
\* X-RateLimit-Reset
NoHeaders == [remaining |-> Unset, reset |-> Unset]
HeaderChoices ==
    {NoHeaders} \cup {[remaining |-> r, reset |-> api.now + 2] : r \in {0, 1}}

\* _update_rate_limit_headers
_update_rate_limit_headers(a, headers) ==
    IF a.rate_limit = NoRateLimit THEN a
    ELSE [a EXCEPT !.rate_limit_remaining =
                       IF headers.remaining # Unset THEN headers.remaining ELSE @,
                   !.rate_limit_reset =
                       IF headers.reset # Unset THEN headers.reset ELSE @]

\* `await asyncio.sleep(...)`: base_client.py never imports asyncio, so the
\* name lookup raises NameError before anything is awaited
asyncio_sleep == "NameError"

\* not self.rate_limit or not self.rate_limit_remaining
NothingToCheck(a) ==
    \/ a.rate_limit = NoRateLimit
    \/ a.rate_limit_remaining = Unset
    \/ a.rate_limit_remaining = 0

\* the exception a failed attempt raises inside the try block; "none" when
\* the attempt returns the parsed JSON
AttemptError(resp) ==
    CASE resp.kind = "RequestError" ->
             [kind |-> "RequestError", status_code |-> 0, details |-> FALSE,
              retry_after |-> 0]
      [] resp.status_code = 429 ->
             [kind |-> "RateLimitExceededError", status_code |-> 429,
              details |-> TRUE,
              retry_after |-> IF resp.retry_after = 0 THEN 1 ELSE resp.retry_after]
      [] resp.status_code >= 400 ->
             [kind |-> "ApiClientError", status_code |-> resp.status_code,
              details |-> TRUE, retry_after |-> 0]
      [] ~resp.json ->
             [kind |-> "ApiClientError", status_code |-> resp.status_code,
              details |-> TRUE, retry_after |-> 0]
      [] OTHER -> NoError

RECURSIVE Pow2(_)
Pow2(k) == IF k = 0 THEN 1 ELSE 2 * Pow2(k - 1)

\* delay = self.retry_delay * (2 ** retry_count), or e.retry_after after a 429
backoff_delay(a, e) ==
    IF e.kind = "RateLimitExceededError" /\ e.retry_after # 0
    THEN e.retry_after
    ELSE a.retry_delay * Pow2(a.retry_count)

\* an exception leaves _make_request
ApiRaise(a, e) == [a EXCEPT !.pc = "done", !.outcome = [kind |-> "raise", exc |-> e]]

NameError == [kind |-> "NameError", status_code |-> 0, details |-> FALSE,
              retry_after |-> 0]

\* _make_request is called: retry_count = 0, last_error = None
_make_request ==
    /\ api.pc = "idle"
    /\ Len(api.sent) < MaxSent
    /\ \E fb \in BOOLEAN :
        api' = [api EXCEPT !.pc = "check", !.use_mock_fallback = fb,
                           !.retry_count = 0, !.last_error = NoError,
                           !.attempts = <<>>, !.sleeps = <<>>,
                           !.outcome = NoOutcome]
    /\ UNCHANGED <<svars, cvars, trainer, amadeus, limiter, mockp, series, trend, predictor>>

\* _check_rate_limit, awaited at the top of every attempt
_check_rate_limit ==
    /\ api.pc = "check"
    /\ api' =
        IF NothingToCheck(api) THEN [api EXCEPT !.pc = "send"]
        ELSE IF api.rate_limit_reset # Unset /\ api.now < api.rate_limit_reset
        THEN IF asyncio_sleep = "none"
             THEN [api EXCEPT !.pc = "send", !.now = api.rate_limit_reset]
             ELSE ApiRaise(api, NameError)
        ELSE IF api.rate_limit_reset # Unset
        THEN [api EXCEPT !.pc = "send", !.rate_limit_remaining = api.rate_limit[1]]
        ELSE [api EXCEPT !.pc = "send"]
    /\ UNCHANGED <<svars, cvars, trainer, amadeus, limiter, mockp, series, trend, predictor>>

\* one attempt: the HTTP request, the response handling and the except branch
Attempt ==
    /\ api.pc = "send"
    /\ \E resp \in Responses, headers \in HeaderChoices :
        LET a1 == [api EXCEPT !.last_request_time = api.now,
                              !.sent = Append(@, api.now),
                              !.attempts = Append(@, resp)]
            a2 == IF resp.kind = "response" THEN _update_rate_limit_headers(a1, headers)
                                            ELSE a1
            e == AttemptError(resp)
            a3 == [a2 EXCEPT !.last_error = e]
        IN api' =
            IF e = NoError
            THEN [a2 EXCEPT !.pc = "done", !.outcome = [kind |-> "json", exc |-> NoError]]
            ELSE IF a3.retry_count >= a3.max_retries
            THEN [a3 EXCEPT !.pc = "exhausted"]
            ELSE IF asyncio_sleep = "none"
            THEN [a3 EXCEPT !.pc = "check",
                            !.sleeps = Append(@, backoff_delay(a3, e)),
                            !.now = @ + backoff_delay(a3, e),
                            !.retry_count = @ + 1]
            ELSE ApiRaise([a3 EXCEPT !.sleeps = Append(@, backoff_delay(a3, e))],
                          NameError)
    /\ UNCHANGED <<svars, cvars, trainer, amadeus, limiter, mockp, series, trend, predictor>>

\* "If we get here, all retries have failed"
AllRetriesFailed ==
    /\ api.pc = "exhausted"
    /\ api' = IF api.use_mock_fallback
              THEN [api EXCEPT !.pc = "done",
                               !.outcome = [kind |-> "mock", exc |-> NoError]]
              ELSE ApiRaise(api, api.last_error)
    /\ UNCHANGED <<svars, cvars, trainer, amadeus, limiter, mockp, series, trend, predictor>>

\* the caller has the result (or the exception) of _make_request
ApiReturn ==
    /\ api.pc = "done"
    /\ api' = [api EXCEPT !.pc = "idle"]
    /\ UNCHANGED <<svars, cvars, trainer, amadeus, limiter, mockp, series, trend, predictor>>

\* time passes between two calls
Tick ==
    /\ api.pc = "idle"
    /\ api.now < MaxClock
    /\ api' = [api EXCEPT !.now = @ + 1]
    /\ UNCHANGED <<svars, cvars, trainer, amadeus, limiter, mockp, series, trend, predictor>>

(***************************************************************************)
(* DataProcessor.detect_price_anomalies                                    *)
(*                                                                         *)
(* A flight is [departure_time, price]; departure times are distinct.  The *)
(* z-score test is carried out in exact integer arithmetic: with n, S and  *)
(* Q the count, sum and sum of squares of the window,                      *)
(*   |x - mean| / std > tn / td                                            *)
(*     <=>  (n - 1) * (n*x - S)^2 * td^2  >  tn^2 * n * (n*Q - S^2)        *)
(* and the z-score is NaN (never an anomaly) when n = 1 or the window is   *)
(* constant.                                                               *)
(***************************************************************************)

\* the series followed: at most MaxSeries flights
MaxSeries == 8

\* defaults of detect_price_anomalies, the values the test calls it with
DefaultWindow == 7
DefaultThreshold == 2

BaselinePrices == {20, 21}
HighPrice == 50
LowPrice == 2

NewSeries == [flights |-> <<>>, pc |-> "build", window |-> DefaultWindow,
              threshold |-> DefaultThreshold, result |-> <<>>]

\* df.sort_values('departure_time')
sort_values(flights) ==
    SortSeq(flights, LAMBDA a, b : a.departure_time < b.departure_time)

\* the rows of the rolling window that ends at row i (min_periods = 1)
rolling(i, window) == {j \in 1..i : j > i - window}

RECURSIVE SumOver(_, _, _)
SumOver(rows, J, squared) ==
    IF J = {} THEN 0
    ELSE LET j == CHOOSE j \in J : TRUE
             x == rows[j].price
         IN (IF squared THEN x * x ELSE x) + SumOver(rows, J \ {j}, squared)

\* n * (n * Q - S^2): n * n * (n - 1) times the rolling variance (ddof = 1)
ScaledVar(rows, i, window) ==
    LET J == rolling(i, window)
        n == Cardinality(J)
    IN n * (n * SumOver(rows, J, TRUE) - SumOver(rows, J, FALSE) * SumOver(rows, J, FALSE))

\* n * x - S: n times the distance of the price from the rolling mean
ScaledDev(rows, i, window) ==
    LET J == rolling(i, window)
    IN Cardinality(J) * rows[i].price - SumOver(rows, J, FALSE)

\* the z-score is a number: roll_std is neither NaN (one row) nor 0
zscore_defined(rows, i, window) ==
    /\ Cardinality(rolling(i, window)) >= 2
    /\ ScaledVar(rows, i, window) > 0

\* abs(df['price_zscore']) > threshold
is_anomaly(rows, i, window, threshold) ==
    /\ zscore_defined(rows, i, window)
    /\ (Cardinality(rolling(i, window)) - 1)
         * ScaledDev(rows, i, window) * ScaledDev(rows, i, window)
       > threshold * threshold * ScaledVar(rows, i, window)

\* the caller appends the next flight of the series
AddPrice ==
    /\ series.pc = "build"
    /\ Len(series.flights) < MaxSeries
    /\ \E p \in BaselinePrices \cup {HighPrice, LowPrice} :
        /\ p \in {HighPrice, LowPrice} =>
              \A j \in 1..Len(series.flights) : series.flights[j].price # p
        /\ series' = [series EXCEPT !.flights =
                        Append(@, [departure_time |-> Len(series.flights) + 1,
                                   price |-> p])]
    /\ UNCHANGED <<svars, cvars, trainer, amadeus, api, limiter, mockp, trend, predictor>>

\* detect_price_anomalies(flights, window, threshold)
detect_price_anomalies ==
    /\ series.pc = "build"
    /\ LET rows == sort_values(series.flights) IN
        series' = [series EXCEPT
            !.pc = "done",
            !.result = [i \in 1..Len(rows) |->
                [departure_time |-> rows[i].departure_time,
                 price |-> rows[i].price,
                 is_anomaly |-> is_anomaly(rows, i, series.window, series.threshold)]]]
    /\ UNCHANGED <<svars, cvars, trainer, amadeus, api, limiter, mockp, trend, predictor>>

(***************************************************************************)
(* DataAnalyzer.calculate_market_trends                                    *)
(*                                                                         *)
(* Departure times are whole days, day 0 being a Monday.  A record is      *)
(* [departure_time, price].  pd.Grouper(freq=...) cuts the span between    *)
(* the first and the last departure into consecutive buckets and the       *)
(* aggregation returns one entry per bucket of that span, the buckets      *)
(* without a record included: their count is 0 and their mean is NaN.      *)
(* A bucket mean is kept as the pair (sum, count).                         *)
(***************************************************************************)

\* the record sets followed: at most MaxFlights records on days 0..MaxDay
MaxFlights == 3
MaxDay == 8

TrendPrices == {1, 2, 3}
GroupBys == {"day", "week"}

NewTrend == [flights |-> <<>>, pc |-> "build", group_by |-> "day",
             result |-> <<>>]

\* the label of the bucket of day d: the day itself for freq='D', the
\* Monday closing the week for freq='W-MON'
bucket_of(d, group_by) ==
    IF group_by = "day" THEN d ELSE ((d + 6) \div 7) * 7

bucket_step(group_by) == IF group_by = "day" THEN 1 ELSE 7

RECURSIVE price_sum(_, _)
price_sum(flights, I) ==
    IF I = {} THEN 0
    ELSE LET i == CHOOSE k \in I : TRUE
         IN flights[i].price + price_sum(flights, I \ {i})

\* grouper['price'].mean() / .count(): one entry per bucket from the first
\* to the last bucket of the data, in bucket order
grouper_mean(flights, group_by) ==
    LET labels == {bucket_of(flights[i].departure_time, group_by) :
                       i \in 1..Len(flights)}
        first  == CHOOSE b \in labels : \A c \in labels : b <= c
        last   == CHOOSE b \in labels : \A c \in labels : c <= b
        step   == bucket_step(group_by)
        n      == (last - first) \div step + 1
    IN [k \in 1..n |->
           LET b == first + (k - 1) * step
               I == {i \in 1..Len(flights) :
                        bucket_of(flights[i].departure_time, group_by) = b}
           IN [bucket |-> b, sum |-> price_sum(flights, I),
               count |-> Cardinality(I)]]

\* mean(b1) <= mean(b2) as Python compares floats: False when either is NaN
mean_le(b1, b2) ==
    /\ b1.count > 0
    /\ b2.count > 0
    /\ b1.sum * b2.count <= b2.sum * b1.count

\* the caller appends a record
AddFlight ==
    /\ trend.pc = "build"
    /\ Len(trend.flights) < MaxFlights
    /\ \E d \in 0..MaxDay, p \in TrendPrices :
        trend' = [trend EXCEPT !.flights =
                     Append(@, [departure_time |-> d, price |-> p])]
    /\ UNCHANGED <<svars, cvars, trainer, amadeus, api, limiter, mockp, series, predictor>>

\* calculate_market_trends(flights, group_by, metrics=['price'])
calculate_market_trends ==
    /\ trend.pc = "build"
    /\ \E g \in GroupBys :
        trend' = [trend EXCEPT
            !.pc = "done",
            !.group_by = g,
            !.result = IF trend.flights = <<>> THEN <<>>
                       ELSE grouper_mean(trend.flights, g)]
    /\ UNCHANGED <<svars, cvars, trainer, amadeus, api, limiter, mockp, series, predictor>>

(***************************************************************************)
(* RateLimiter (app/utils/rate_limiter.py), in-memory implementation       *)
(*                                                                         *)
(* limiter.store is _rate_limit_store: key -> (count, reset_time), or      *)
(* NoEntry for a key not in the dict.  limiter.now is time.time() in whole *)
(* seconds.  limiter.log keeps, per check_rate_limit call, the key, the    *)
(* time and how the call ended.                                            *)
(***************************************************************************)

\* the calls followed: at most MaxChecks calls up to time MaxTime
MaxChecks == 4
MaxTime == 4

LimitChoices == {1, 2}
LimiterWindow == 2
Keys == {"ip:a", "ip:b"}
NoEntry == [count |-> 0, reset_time |-> Unset]

NewRateLimiter(limit, window) ==
    [limit |-> limit, window |-> window, now |-> 0,
     store |-> [k \in Keys |-> NoEntry], log |-> <<>>]

\* _in_memory_rate_limit(key): the new store entry
_in_memory_rate_limit(l, key) ==
    LET e == l.store[key]
    IN IF e # NoEntry
       THEN IF l.now > e.reset_time
            THEN [count |-> 1, reset_time |-> l.now + l.window]
            ELSE [count |-> e.count + 1, reset_time |-> e.reset_time]
       ELSE [count |-> 1, reset_time |-> l.now + l.window]

\* remaining = max(0, self.limit - count)
remaining(l, count) == IF l.limit - count > 0 THEN l.limit - count ELSE 0

\* check_rate_limit(request) for a request with key `key`
check_rate_limit ==
    /\ Len(limiter.log) < MaxChecks
    /\ \E key \in Keys :
        LET e == _in_memory_rate_limit(limiter, key)
            rate_info == [remaining |-> remaining(limiter, e.count),
                          count |-> e.count]
        IN limiter' = [limiter EXCEPT
               !.store[key] = e,
               !.log = Append(@, [key |-> key, time |-> limiter.now,
                                  count |-> rate_info.count,
                                  outcome |-> IF rate_info.remaining < 0
                                              THEN "RateLimitExceeded"
                                              ELSE "returned"])]
    /\ UNCHANGED <<svars, cvars, trainer, amadeus, api, mockp, series, trend, predictor>>

\* time passes
LimiterTick ==
    /\ limiter.now < MaxTime
    /\ limiter' = [limiter EXCEPT !.now = @ + 1]
    /\ UNCHANGED <<svars, cvars, trainer, amadeus, api, mockp, series, trend, predictor>>

(***************************************************************************)
(* MockDataProvider (app/services/mock_data_provider.py)                   *)
(*                                                                         *)
(* A datetime is a whole number of hours, 24 * day + hour.  The values     *)
(* drawn from `random` are chosen nondeterministically from a few values   *)
(* of their range, both ends among them.  Prices are whole dollars.        *)
(***************************************************************************)

\* the calls followed: get_flights with limit 0..MaxLimit
MaxLimit == 2

HoursPerDay == 24

AUSTRALIAN_AIRPORTS ==
    {"SYD", "MEL", "BNE", "PER", "ADL", "CBR", "HBA", "DRW", "CNS", "OOL"}

\* code -> capacity range
AIRCRAFT_TYPES ==
    [A320 |-> <<150, 186>>, A330 |-> <<250, 300>>, A350 |-> <<300, 350>>,
     A380 |-> <<500, 853>>, B737 |-> <<130, 215>>, B747 |-> <<366, 416>>,
     B777 |-> <<301, 550>>, B787 |-> <<242, 330>>]

\* the arguments followed
AirportCodes == {"SYD", "XXX"}
DateFroms == {0, 12}
DateTos == {20, 24}

\* the draws followed
AircraftDraws == {"A320", "A380"}
FlightsPerDay == {1, 5}
DepartureHours == {6, 22}
CapacityDraws(range) == {range[1], range[1] + 1, range[2]}
BasePriceDraws == {[base |-> 100, distance |-> 500, demand |-> -50],
                   [base |-> 300, distance |-> 4000, demand |-> 100]}

NoArgs == [origin |-> "none", date_from |-> 0, date_to |-> 0, limit |-> 0,
           airport_code |-> "none"]

NewMock == [pc |-> "idle", op |-> "none", args |-> NoArgs, current_date |-> 0,
            day_left |-> 0, flights |-> <<>>, outcome |-> "none"]

\* int(capacity * 0.5), int(capacity * 0.9)
booked_low(capacity) == capacity \div 2
booked_high(capacity) == (capacity * 9) \div 10

\* current_date.replace(hour=h, minute=0, second=0, microsecond=0)
replace_hour(d, h) == (d \div HoursPerDay) * HoursPerDay + h

\* while current_date <= date_to and len(flights) < limit
loop_continues_no_date_to(m) == Len(m.flights) < m.args.limit

loop_continues(m) ==
    /\ m.current_date <= m.args.date_to
    /\ Len(m.flights) < m.args.limit

\* the flight records one pass of the loop body can build
flight_records(m) ==
    { [departure_time |-> replace_hour(m.current_date, h),
       aircraft |-> a,
       capacity |-> c,
       booked_seats |-> b,
       available_seats |-> c - b,
       price |-> p.base + p.distance \div 10 + p.demand] :
         h \in DepartureHours,
         a \in AircraftDraws,
         c \in UNION {CapacityDraws(AIRCRAFT_TYPES[x]) : x \in AircraftDraws},
         b \in UNION {{booked_low(k), booked_high(k)} :
                        k \in UNION {CapacityDraws(AIRCRAFT_TYPES[x]) : x \in AircraftDraws}},
         p \in BasePriceDraws }

\* the records of flight_records(m) whose draws belong together
drawn_flights(m) ==
    {f \in flight_records(m) :
        /\ f.capacity \in CapacityDraws(AIRCRAFT_TYPES[f.aircraft])
        /\ f.booked_seats \in {booked_low(f.capacity), booked_high(f.capacity)}}

\* get_airports()
mock_get_airports ==
    /\ mockp.pc = "idle"
    /\ mockp' = [mockp EXCEPT !.pc = "done", !.op = "get_airports",
                              !.outcome = "returned"]
    /\ UNCHANGED <<svars, cvars, trainer, amadeus, api, limiter, series, trend, predictor>>

\* get_market_data(origin): an origin that is not found is replaced by a
\* random airport
mock_get_market_data ==
    /\ mockp.pc = "idle"
    /\ \E origin \in AirportCodes :
        mockp' = [mockp EXCEPT !.pc = "done", !.op = "get_market_data",
                               !.args.origin = origin,
                               !.outcome = "returned"]
    /\ UNCHANGED <<svars, cvars, trainer, amadeus, api, limiter, series, trend, predictor>>

\* get_airport_analytics(airport_code)
mock_get_airport_analytics ==
    /\ mockp.pc = "idle"
    /\ \E code \in AirportCodes :
        mockp' = [mockp EXCEPT !.pc = "done", !.op = "get_airport_analytics",
                               !.args.airport_code = code,
                               !.outcome = IF code \in AUSTRALIAN_AIRPORTS
                                           THEN "returned" ELSE "ValueError"]
    /\ UNCHANGED <<svars, cvars, trainer, amadeus, api, limiter, series, trend, predictor>>

\* get_flights(origin, date_from=..., date_to=..., limit=...): up to the loop
mock_get_flights ==
    /\ mockp.pc = "idle"
    /\ \E origin \in AirportCodes, df \in DateFroms, dt \in DateTos,
          limit \in 0..MaxLimit :
        mockp' = [mockp EXCEPT !.pc = "loop", !.op = "get_flights",
                               !.args.origin = origin,
                               !.args.date_from = df,
                               !.args.date_to = dt,
                               !.args.limit = limit,
                               !.current_date = df,
                               !.flights = <<>>]
    /\ UNCHANGED <<svars, cvars, trainer, amadeus, api, limiter, series, trend, predictor>>

\* the head of the while loop: the next day starts, or the flights are
\* returned
NextDay ==
    /\ mockp.pc = "loop"
    /\ mockp.day_left = 0
    /\ IF loop_continues(mockp)
       THEN \E n \in FlightsPerDay : mockp' = [mockp EXCEPT !.day_left = n]
       ELSE mockp' = [mockp EXCEPT !.pc = "done", !.outcome = "returned"]
    /\ UNCHANGED <<svars, cvars, trainer, amadeus, api, limiter, series, trend, predictor>>

\* one pass of the inner for loop, with the step to the next day after the
\* last pass
NextFlight ==
    /\ mockp.pc = "loop"
    /\ mockp.day_left > 0
    /\ IF Len(mockp.flights) >= mockp.args.limit
       THEN mockp' = [mockp EXCEPT !.day_left = 0,
                                   !.current_date = @ + HoursPerDay]
       ELSE \E f \in drawn_flights(mockp) :
               mockp' = [mockp EXCEPT
                   !.flights = Append(@, f),
                   !.day_left = @ - 1,
                   !.current_date = IF mockp.day_left = 1
                                    THEN @ + HoursPerDay ELSE @]
    /\ UNCHANGED <<svars, cvars, trainer, amadeus, api, limiter, series, trend, predictor>>

(***************************************************************************)
(* DemandPredictor (app/services/demand_model.py)                          *)
(*                                                                         *)
(* A data frame X is [rows, departure_time]: its number of rows and        *)
(* whether it has the departure_time column.  An estimator is "unfitted"   *)
(* or "fitted".  The file written by save is the dict joblib dumps, NoFile *)
(* when nothing was written.                                               *)
(***************************************************************************)

\* the data frames followed: at most MaxRows rows
MaxRows == 2

ModelTypes == {"random_forest", "gradient_boosting"}
Frames == [rows : 0..MaxRows, departure_time : BOOLEAN]
FilePaths == {"models/demand.joblib", "demand.joblib"}
DefaultFeatures == [categorical_features |-> "categorical_features",
                    numerical_features |-> "numerical_features",
                    target_column |-> "demand"]

\* DemandPredictor(model_type): __init__ with _initialize_model and
\* _setup_feature_processor
NewDemandPredictor(model_type) ==
    [model_type |-> model_type,
     model |-> "unfitted",
     feature_processor |-> "unfitted",
     categorical_features |-> DefaultFeatures.categorical_features,
     numerical_features |-> DefaultFeatures.numerical_features,
     target_column |-> DefaultFeatures.target_column]

NoFile == [model_type |-> "none", model |-> "none",
           feature_processor |-> "none", categorical_features |-> "none",
           numerical_features |-> "none", target_column |-> "none"]

NoFrame == [rows |-> 0, departure_time |-> FALSE]

NewPredictorState(model_type) ==
    [pc |-> "new", p |-> NewDemandPredictor(model_type), file |-> NoFile,
     loaded |-> NoFile, train_X |-> NoFrame, train_exc |-> "none",
     filepath |-> "none", save_exc |-> "none", X |-> NoFrame, original_predictions |-> "none",
     loaded_predictions |-> "none"]

\* _is_holiday(dates): month.astype(str) + '-' + day.astype(str).isin(...)
\* .astype(int) adds a column of int to a column of str, which raises for
\* every frame with a row
_is_holiday(X) == IF X.rows > 0 THEN "TypeError" ELSE "ok"

\* prepare_features(data): "ok" or the exception raised
prepare_features(X) ==
    IF ~X.departure_time THEN "ValueError" ELSE _is_holiday(X)

\* train(X): the exception raised, "none" when the pipeline was fitted;
\* a frame without rows cannot be split or fitted
train_outcome(X) ==
    IF prepare_features(X) # "ok" THEN prepare_features(X)
    ELSE IF X.rows = 0 THEN "ValueError" ELSE "none"

\* predict(X) of predictor q: the predictions, or the exception raised
predict(q, X) ==
    IF q.model = "none" \/ q.feature_processor = "none" THEN "ValueError"
    ELSE IF prepare_features(X) # "ok" THEN prepare_features(X)
    ELSE IF q.model # "fitted" \/ q.feature_processor # "fitted"
         THEN "NotFittedError"
    ELSE IF X.rows = 0 THEN "ValueError"
    ELSE <<q.model_type, q.model, q.feature_processor, X>>

Exceptions == {"ValueError", "TypeError", "NotFittedError", "FileNotFoundError"}

\* predictor.train(X, validation_split=0.0)
train ==
    /\ predictor.pc = "new"
    /\ \E X \in Frames :
        predictor' = [predictor EXCEPT
            !.pc = "trained",
            !.train_X = X,
            !.train_exc = train_outcome(X),
            !.p.model = IF train_outcome(X) = "none" THEN "fitted" ELSE @,
            !.p.feature_processor =
                IF train_outcome(X) = "none" THEN "fitted" ELSE @]
    /\ UNCHANGED <<svars, cvars, trainer, amadeus, api, limiter, mockp, series, trend>>

\* predictor.save(filepath): os.makedirs(os.path.dirname(filepath)) raises
\* for a path without a directory part
save ==
    /\ predictor.pc = "trained"
    /\ \E filepath \in FilePaths :
        IF filepath = "demand.joblib"
        THEN predictor' = [predictor EXCEPT !.pc = "saved",
                                            !.filepath = filepath,
                                            !.save_exc = "FileNotFoundError"]
        ELSE predictor' = [predictor EXCEPT
                !.pc = "saved",
                !.filepath = filepath,
                !.file = [model_type |-> predictor.p.model_type,
                          model |-> predictor.p.model,
                          feature_processor |-> predictor.p.feature_processor,
                          categorical_features |-> predictor.p.categorical_features,
                          numerical_features |-> predictor.p.numerical_features,
                          target_column |-> predictor.p.target_column]]
    /\ UNCHANGED <<svars, cvars, trainer, amadeus, api, limiter, mockp, series, trend>>

\* the fields load copies from the file into the new predictor
restored(file) ==
    [NewDemandPredictor(file.model_type) EXCEPT
        !.model = file.model,
        !.feature_processor = file.feature_processor,
        !.categorical_features = file.categorical_features,
        !.numerical_features = file.numerical_features,
        !.target_column = file.target_column]

\* DemandPredictor.load(filepath) of the file written by save
load ==
    /\ predictor.pc = "saved"
    /\ predictor.file # NoFile
    /\ predictor' = [predictor EXCEPT !.pc = "loaded",
                                      !.loaded = restored(predictor.file)]
    /\ UNCHANGED <<svars, cvars, trainer, amadeus, api, limiter, mockp, series, trend>>

\* predictor.predict(X) and loaded_predictor.predict(X)
predict_both ==
    /\ predictor.pc = "loaded"
    /\ \E X \in Frames :
        predictor' = [predictor EXCEPT
            !.pc = "compared",
            !.X = X,
            !.original_predictions = predict(predictor.p, X),
            !.loaded_predictions = predict(predictor.loaded, X)]
    /\ UNCHANGED <<svars, cvars, trainer, amadeus, api, limiter, mockp, series, trend>>

(***************************************************************************)
(* AmadeusClient (app/services/amadeus_client.py)                          *)
(*                                                                         *)
(* Several callers share one client.  A caller runs from one `await` of a  *)
(* network call to the next in one step; the token request and the API     *)
(* request are the two suspension points.  Time is in minutes.  A token is *)
(* the number of the token request that returned it, 0 for None.           *)
(* A caller's grant records the return of _get_access_token to it.         *)
(***************************************************************************)

\* the calls followed: at most MaxIssued token requests up to time
\* MaxAmadeusClock
MaxIssued == 2
MaxAmadeusClock == 1

\* timedelta(minutes=5)
ExpiryMargin == 5

Callers == {1, 2}
ExpiresIns == {4, 7}
AmadeusCalls ==
    {[op |-> "get_flight_offers", empty_range |-> FALSE],
     [op |-> "get_flight_offers", empty_range |-> TRUE],
     [op |-> "get_flight_most_traveled_destinations", empty_range |-> FALSE]}

NoGrant ==
    [cached |-> FALSE, decided_at |-> 0, prior_token |-> 0,
     prior_expiry |-> Unset, token |-> 0, expires_in |-> 0, now |-> 0,
     cached_token |-> 0, cached_expiry |-> Unset]

IdleCaller ==
    [pc |-> "idle", op |-> "none", use_mock_fallback |-> TRUE,
     empty_range |-> FALSE, grant |-> NoGrant, failure |-> "none",
     outcome |-> "none"]

\* AmadeusClient.__init__
NewAmadeusClient(configured) ==
    [configured |-> configured, access_token |-> 0, token_expiry |-> Unset,
     now |-> 0, issued |-> 0, callers |-> [c \in Callers |-> IdleCaller]]

AmadeusIdle == amadeus = NewAmadeusClient(FALSE)

\* self.access_token and self.token_expiry and
\* self.token_expiry > datetime.utcnow() + timedelta(minutes=5)
token_valid_no_margin(a) ==
    /\ a.access_token # 0
    /\ a.token_expiry # Unset
    /\ a.token_expiry > a.now

token_valid(a) ==
    /\ a.access_token # 0
    /\ a.token_expiry # Unset
    /\ a.token_expiry > a.now + ExpiryMargin

\* what the public method does with an empty response when mock fallback
\* is on: get_flight_offers formats the mock flights with random.randint and
\* uuid.uuid4, get_flight_most_traveled_destinations draws with
\* random.sample, and amadeus_client.py imports neither random nor uuid.
\* Only get_flight_offers with no mock flight to format returns.
mock_response(op, empty_range) ==
    IF op = "get_flight_offers" /\ empty_range THEN "mock" ELSE "NameError"

\* the caller's call ends with this outcome
Ended(cr, failure, outcome) ==
    [cr EXCEPT !.pc = "done", !.failure = failure, !.outcome = outcome,
               !.grant = NoGrant]

\* _make_request got no usable response: {} with mock fallback, else
\* AmadeusClientError
request_failed(cr, failure) ==
    Ended(cr, failure,
          IF cr.use_mock_fallback THEN mock_response(cr.op, cr.empty_range)
                                  ELSE "AmadeusClientError")

\* a public method is called: _make_request up to the first network call,
\* the token request when _get_access_token finds no valid cached token
AmadeusCall ==
    /\ \E c \in Callers, call_ \in AmadeusCalls, fb \in BOOLEAN :
        /\ amadeus.callers[c].pc = "idle"
        /\ (amadeus.configured /\ ~token_valid(amadeus))
               => amadeus.issued < MaxIssued
        /\ LET cr == [IdleCaller EXCEPT
                        !.op = call_.op, !.use_mock_fallback = fb,
                        !.empty_range = call_.empty_range,
                        !.grant = [NoGrant EXCEPT
                            !.decided_at = amadeus.now,
                            !.prior_token = amadeus.access_token,
                            !.prior_expiry = amadeus.token_expiry]]
           IN amadeus' =
               IF ~amadeus.configured
               THEN [amadeus EXCEPT
                       !.callers[c] = request_failed(cr, "credentials")]
               ELSE IF token_valid(amadeus)
               THEN [amadeus EXCEPT !.callers[c] =
                       [cr EXCEPT !.pc = "api",
                                  !.grant.cached = TRUE,
                                  !.grant.now = amadeus.now,
                                  !.grant.token = amadeus.access_token,
                                  !.grant.cached_token = amadeus.access_token,
                                  !.grant.cached_expiry = amadeus.token_expiry]]
               ELSE [amadeus EXCEPT
                       !.callers[c] = [cr EXCEPT !.pc = "token",
                                                 !.grant.token =
                                                     amadeus.issued + 1],
                       !.issued = @ + 1]
    /\ UNCHANGED <<svars, cvars, trainer, api, limiter, mockp, series, trend, predictor>>

\* the token request of caller c is answered
TokenResponse ==
    /\ \E c \in Callers, ok \in BOOLEAN, expires_in \in ExpiresIns :
        /\ amadeus.callers[c].pc = "token"
        /\ LET cr == amadeus.callers[c]
               t == cr.grant.token
           IN amadeus' =
               IF ok
               THEN [amadeus EXCEPT
                       !.access_token = t,
                       !.token_expiry = amadeus.now + expires_in,
                       !.callers[c] =
                           [cr EXCEPT !.pc = "api",
                                      !.grant.now = amadeus.now,
                                      !.grant.expires_in = expires_in,
                                      !.grant.cached_token = t,
                                      !.grant.cached_expiry =
                                          amadeus.now + expires_in]]
               ELSE [amadeus EXCEPT
                       !.callers[c] = Ended(cr, "token", "AmadeusClientError")]
    /\ UNCHANGED <<svars, cvars, trainer, api, limiter, mockp, series, trend, predictor>>

\* the API request of caller c is answered
ApiResponse ==
    /\ \E c \in Callers, resp \in {"data", "empty", "error"} :
        /\ amadeus.callers[c].pc = "api"
        /\ LET cr == amadeus.callers[c] IN
           amadeus' = [amadeus EXCEPT !.callers[c] =
               CASE resp = "data" -> Ended(cr, "none", "live")
                 [] resp = "empty" ->
                      IF cr.use_mock_fallback
                      THEN Ended(cr, "none", mock_response(cr.op, cr.empty_range))
                      ELSE Ended(cr, "none", "live")
                 [] OTHER -> request_failed(cr, "api")]
    /\ UNCHANGED <<svars, cvars, trainer, api, limiter, mockp, series, trend, predictor>>

\* the caller has its result, or its exception
AmadeusReturn ==
    /\ \E c \in Callers :
        /\ amadeus.callers[c].pc = "done"
        /\ amadeus' = [amadeus EXCEPT !.callers[c] = IdleCaller]
    /\ UNCHANGED <<svars, cvars, trainer, api, limiter, mockp, series, trend, predictor>>

\* time passes
AmadeusTick ==
    /\ amadeus.now < MaxAmadeusClock
    /\ amadeus' = [amadeus EXCEPT !.now = @ + 1]
    /\ UNCHANGED <<svars, cvars, trainer, api, limiter, mockp, series, trend, predictor>>

(***************************************************************************)
(* DemandPredictor: the estimators over train, save and load               *)
(*                                                                         *)
(* An estimator is [made_by, fitted_by, bundle]: the predictor instance    *)
(* whose _initialize_model or _setup_feature_processor made it (1 the      *)
(* predictor, 2 the one load creates), the train call that fitted it (0    *)
(* for never), and the saved bundle it was read from (0 for none).  A      *)
(* frame is the sequence of its rows, [departure_time, target]; target     *)
(* names the demand value the row came with.  Frames of at most            *)
(* MaxTrainRows rows are followed, for which prepare_features does not     *)
(* reorder the rows (it sorts frames of more than 7 rows).                 *)
(***************************************************************************)

\* the calls followed: MaxRuns train calls on frames of at most MaxTrainRows
\* rows, MaxSaves saves
MaxRuns == 2
MaxTrainRows == 3
MaxSaves == 2

DepartureTimes == {1, 2}
ValidationSplits == {0, 20}      \* validation_split in percent

NewEstimator(instance) ==
    [made_by |-> instance, fitted_by |-> 0, bundle |-> 0]

NoEstimator == [made_by |-> 0, fitted_by |-> 0, bundle |-> 0]

NoPair == [model |-> NoEstimator, feature_processor |-> NoEstimator]

\* the model and feature_processor of DemandPredictor(...)
NewPair(instance) ==
    [model |-> NewEstimator(instance),
     feature_processor |-> NewEstimator(instance)]

NoRun ==
    [X |-> <<>>, validation_split |-> 0, y_fits |-> TRUE, exc |-> "none",
     X_train |-> <<>>, X_val |-> <<>>, validated |-> FALSE]

NewTrainer ==
    [p |-> NewPair(1), file |-> NoPair, saves |-> 0, loaded |-> NoPair,
     runs |-> 0, last |-> NoRun]

TrainerIdle == trainer = NewTrainer

\* the frames of n rows
TrainFrames(n) == [1..n -> [departure_time : DepartureTimes, target : {0}]]

\* the rows of the frame with target the position they came at
WithTargets(rows) ==
    [i \in 1..Len(rows) |-> [departure_time |-> rows[i].departure_time,
                             target |-> i]]

\* train_test_split(X, y, test_size=validation_split, shuffle=False): the
\* last ceil(test_size * n) rows are the test set, the rows before them the
\* training set
n_test(n, validation_split) == (validation_split * n + 99) \div 100

\* train(X, validation_split): the exception raised ("none" for a return),
\* the estimators afterwards and the two sets.  y_fits tells whether the
\* regressor accepts the targets.
train_steps(pair, X, validation_split, y_fits, run) ==
    LET failed(exc, q) ==
            [exc |-> exc, pair |-> q, X_train |-> <<>>, X_val |-> <<>>,
             validated |-> FALSE]
        n == Len(X)
        k == IF validation_split > 0 THEN n - n_test(n, validation_split)
             ELSE n
        fitted_processor ==
            [pair EXCEPT !.feature_processor.fitted_by = run]
        fitted_both ==
            [fitted_processor EXCEPT !.model.fitted_by = run]
    IN  IF _is_holiday([rows |-> n, departure_time |-> TRUE]) # "ok"
        THEN failed(_is_holiday([rows |-> n, departure_time |-> TRUE]), pair)
        ELSE IF validation_split > 0 /\ (k = 0 \/ n = 0)
        THEN failed("ValueError", pair)
        \* pipeline.fit fits self.feature_processor, then self.model, in
        \* place; the feature processor rejects a frame without rows
        ELSE IF k = 0
        THEN failed("ValueError", pair)
        ELSE IF ~y_fits
        THEN failed("ValueError", fitted_processor)
        ELSE [exc |-> "none", pair |-> fitted_both,
              X_train |-> SubSeq(X, 1, k),
              X_val |-> SubSeq(X, k + 1, n),
              validated |-> validation_split > 0]

\* predictor.train(X, validation_split=...)
trainer_train ==
    /\ trainer.runs < MaxRuns
    /\ \E n \in 0..MaxTrainRows, vs \in ValidationSplits, y_fits \in BOOLEAN :
       \E rows \in TrainFrames(n) :
        LET X == WithTargets(rows)
            r == train_steps(trainer.p, X, vs, y_fits, trainer.runs + 1)
        IN trainer' = [trainer EXCEPT
               !.runs = @ + 1,
               !.p = r.pair,
               !.last = [X |-> X, validation_split |-> vs, y_fits |-> y_fits,
                         exc |-> r.exc, X_train |-> r.X_train,
                         X_val |-> r.X_val, validated |-> r.validated]]
    /\ UNCHANGED <<svars, cvars, amadeus, api, limiter, mockp, series, trend, predictor>>

\* predictor.save(filepath): joblib.dump of one dict holding both estimators;
\* a path without a directory part raises before anything is written
trainer_save ==
    /\ trainer.saves < MaxSaves
    /\ \E filepath \in FilePaths :
        trainer' =
            IF filepath = "demand.joblib" THEN [trainer EXCEPT !.saves = @ + 1]
            ELSE [trainer EXCEPT
                    !.saves = @ + 1,
                    !.file = [model |-> [trainer.p.model EXCEPT
                                            !.bundle = trainer.saves + 1],
                              feature_processor |->
                                  [trainer.p.feature_processor EXCEPT
                                            !.bundle = trainer.saves + 1]]]
    /\ UNCHANGED <<svars, cvars, amadeus, api, limiter, mockp, series, trend, predictor>>

\* load restores only the regressor
restored_pair_model_only(file) ==
    [NewPair(2) EXCEPT !.model = file.model]

\* DemandPredictor.load: cls(...) and then predictor.model and
\* predictor.feature_processor from the file
restored_pair(file) ==
    [NewPair(2) EXCEPT !.model = file.model,
                       !.feature_processor = file.feature_processor]

\* DemandPredictor.load(filepath) of the file last written
trainer_load ==
    /\ trainer.file # NoPair
    /\ trainer.loaded # restored_pair(trainer.file)
    /\ trainer' = [trainer EXCEPT !.loaded = restored_pair(trainer.file)]
    /\ UNCHANGED <<svars, cvars, amadeus, api, limiter, mockp, series, trend, predictor>>

LimiterIdle == limiter = NewRateLimiter(1, LimiterWindow)
MockIdle == mockp = NewMock
SeriesIdle == series = NewSeries
TrendIdle == trend = NewTrend
PredictorIdle == predictor = NewPredictorState("random_forest")

CleanIdle ==
    /\ flight_data = <<>>
    /\ raw_input = <<>>
    /\ cleaned_data = <<>>
    /\ cpos = 1
    /\ cpc = "done"
    /\ error_log = <<>>

\* the caller puts one more raw record into the batch it is going to pass
AddRecord ==
    /\ cpc = "build"
    /\ Len(flight_data) < MaxRecords
    /\ \E j \in 0..(MaxFields - Populated(flight_data)) :
        \E r \in RecordsOfSize[j] :
            /\ flight_data' = Append(flight_data, r)
            /\ raw_input' = Append(raw_input, r)
    /\ UNCHANGED <<cleaned_data, cpos, cpc, error_log>>
    /\ UNCHANGED <<svars, xvars>>

\* clean_flight_data(flight_data) is called: cleaned_data = []
clean_flight_data ==
    /\ cpc = "build"
    /\ cpc' = "run"
    /\ cleaned_data' = <<>>
    /\ cpos' = 1
    /\ error_log' = <<>>
    /\ UNCHANGED <<flight_data, raw_input>>
    /\ UNCHANGED <<svars, xvars>>

\* one iteration of "for flight in flight_data": the dict is cleaned in place
\* and appended, unless an exception left the try block (logged, `continue`)
CleanRecord ==
    /\ cpc = "run"
    /\ cpos <= Len(flight_data)
    /\ LET st == clean_flight(flight_data[cpos]) IN
        /\ flight_data' = [flight_data EXCEPT ![cpos] = st.rec]
        /\ cleaned_data' = IF st.exc = "none" THEN Append(cleaned_data, st.rec)
                                              ELSE cleaned_data
        /\ error_log' = IF st.exc = "none" THEN error_log
                                           ELSE Append(error_log, <<cpos, st.exc>>)
    /\ cpos' = cpos + 1
    /\ UNCHANGED <<raw_input, cpc>>
    /\ UNCHANGED <<svars, xvars>>

\* `return cleaned_data` (and `if not flight_data: return []`)
CleanReturn ==
    /\ cpc = "run"
    /\ cpos > Len(flight_data)
    /\ cpc' = "done"
    /\ UNCHANGED <<flight_data, raw_input, cleaned_data, cpos, error_log>>
    /\ UNCHANGED <<svars, xvars>>

Init ==
    /\ SvcInit
    /\ CleanIdle
    /\ ApiIdle /\ LimiterIdle /\ MockIdle /\ SeriesIdle /\ TrendIdle /\ PredictorIdle /\ AmadeusIdle
    /\ TrainerIdle

Next ==
    \/ get_airports
    \/ search_flight_offers
    \/ TryPrimary
    \/ TryFallback
    \/ AllSourcesFailed
    \/ AirportsReturn
    \/ FlightsReturn
    \/ get_market_data
    \/ get_airport_analytics
    \/ Finish

Spec == Init /\ [][Next]_vars

\* the caller has an empty batch, and has not called clean_flight_data yet
CleanInit ==
    /\ SvcInit
    /\ clients = {"MOCK"}
    /\ flight_data = <<>>
    /\ raw_input = <<>>
    /\ cleaned_data = <<>>
    /\ cpos = 1
    /\ cpc = "build"
    /\ error_log = <<>>
    /\ ApiIdle /\ LimiterIdle /\ MockIdle /\ SeriesIdle /\ TrendIdle /\ PredictorIdle /\ AmadeusIdle
    /\ TrainerIdle

CleanNext ==
    \/ AddRecord
    \/ clean_flight_data
    \/ CleanRecord
    \/ CleanReturn

SpecClean == CleanInit /\ [][CleanNext]_vars

\* a BaseApiClient as its constructor leaves it
ClientInit ==
    /\ SvcInit
    /\ clients = {"MOCK"}
    /\ CleanIdle
    /\ \E rl \in RateLimits, mr \in RetryChoices : api = NewApiClient(rl, mr)
    /\ LimiterIdle /\ MockIdle /\ SeriesIdle /\ TrendIdle /\ PredictorIdle /\ AmadeusIdle
    /\ TrainerIdle

ClientNext ==
    \/ _make_request
    \/ _check_rate_limit
    \/ Attempt
    \/ AllRetriesFailed
    \/ ApiReturn
    \/ Tick

SpecClient == ClientInit /\ [][ClientNext]_vars

\* the caller starts with an empty series
AnomalyInit ==
    /\ SvcInit
    /\ clients = {"MOCK"}
    /\ CleanIdle
    /\ ApiIdle /\ LimiterIdle /\ MockIdle /\ SeriesIdle /\ TrendIdle /\ PredictorIdle /\ AmadeusIdle
    /\ TrainerIdle

AnomalyNext ==
    \/ AddPrice
    \/ detect_price_anomalies

SpecAnomaly == AnomalyInit /\ [][AnomalyNext]_vars

\* the caller starts with an empty record set
TrendInit ==
    /\ SvcInit
    /\ clients = {"MOCK"}
    /\ CleanIdle
    /\ ApiIdle /\ LimiterIdle /\ MockIdle /\ SeriesIdle /\ TrendIdle /\ PredictorIdle /\ AmadeusIdle
    /\ TrainerIdle

TrendNext ==
    \/ AddFlight
    \/ calculate_market_trends

SpecTrends == TrendInit /\ [][TrendNext]_vars

\* a RateLimiter as its constructor leaves it, the store empty
LimiterInit ==
    /\ SvcInit
    /\ clients = {"MOCK"}
    /\ CleanIdle
    /\ ApiIdle /\ MockIdle /\ SeriesIdle /\ TrendIdle /\ PredictorIdle /\ AmadeusIdle
    /\ TrainerIdle
    /\ \E n \in LimitChoices : limiter = NewRateLimiter(n, LimiterWindow)

LimiterNext ==
    \/ check_rate_limit
    \/ LimiterTick

SpecLimiter == LimiterInit /\ [][LimiterNext]_vars

\* no operation of the mock provider has been called
MockInit ==
    /\ SvcInit
    /\ clients = {"MOCK"}
    /\ CleanIdle
    /\ ApiIdle /\ LimiterIdle /\ MockIdle /\ SeriesIdle /\ TrendIdle /\ PredictorIdle /\ AmadeusIdle
    /\ TrainerIdle

MockNext ==
    \/ mock_get_airports
    \/ mock_get_market_data
    \/ mock_get_airport_analytics
    \/ mock_get_flights
    \/ NextDay
    \/ NextFlight

SpecMock == MockInit /\ [][MockNext]_vars

\* a DemandPredictor as its constructor leaves it
ModelInit ==
    /\ SvcInit
    /\ clients = {"MOCK"}
    /\ CleanIdle
    /\ ApiIdle /\ LimiterIdle /\ MockIdle /\ SeriesIdle /\ TrendIdle /\ AmadeusIdle
    /\ TrainerIdle
    /\ \E t \in ModelTypes : predictor = NewPredictorState(t)

ModelNext ==
    \/ train
    \/ save
    \/ load
    \/ predict_both

SpecModel == ModelInit /\ [][ModelNext]_vars

\* an AmadeusClient as its constructor leaves it, with or without credentials
AmadeusInit ==
    /\ SvcInit
    /\ clients = {"MOCK"}
    /\ CleanIdle
    /\ ApiIdle /\ LimiterIdle /\ MockIdle /\ SeriesIdle /\ TrendIdle /\ PredictorIdle
    /\ TrainerIdle
    /\ \E configured \in BOOLEAN : amadeus = NewAmadeusClient(configured)

AmadeusNext ==
    \/ AmadeusCall
    \/ TokenResponse
    \/ ApiResponse
    \/ AmadeusReturn
    \/ AmadeusTick

SpecAmadeus == AmadeusInit /\ [][AmadeusNext]_vars

\* a DemandPredictor as its constructor leaves it, nothing saved or loaded
TrainerInit ==
    /\ SvcInit
    /\ clients = {"MOCK"}
    /\ CleanIdle
    /\ ApiIdle /\ LimiterIdle /\ MockIdle /\ SeriesIdle /\ TrendIdle
    /\ PredictorIdle /\ AmadeusIdle
    /\ trainer = NewTrainer

TrainerNext ==
    \/ trainer_train
    \/ trainer_save
    \/ trainer_load

SpecTrainer == TrainerInit /\ [][TrainerNext]_vars

(***************************************************************************)
(* DataCleaner: properties                                                 *)
(***************************************************************************)

\* record i of the batch has been through the loop body
Processed(i) == cpc \in {"run", "done"} /\ i \in 1..(cpos - 1)

\* record i was appended to cleaned_data (no exception was logged for it)
Kept(i) == \A k \in 1..Len(error_log) : error_log[k][1] # i

\* the dict of record i after the loop body (the dict is cleaned in place)
Cleaned(i) == flight_data[i]

\* C7: clean_flight_data returns one cleaned record per input record: no
\* record is dropped, whatever its fields hold.
C7_NoRecordDropped ==
    cpc = "done" =>
        /\ Len(cleaned_data) = Len(raw_input)
        /\ \A i \in 1..Len(raw_input) : Kept(i)

\* the magnitude of a number in hundredths (an int counts units, a float
\* hundredths)
Hundredths(v) == IF v.t = "float" THEN v.n ELSE v.n * 100

\* C8: every numeric field left under its canonical name is non-negative
\* (a derived flight_duration included), and a negative input is replaced by
\* its absolute value.
C8_NumericNonNegative ==
    \A i \in 1..Len(raw_input) :
        (Processed(i) /\ Kept(i)) =>
            \A f \in Range(numeric_fields) \cap DOMAIN Cleaned(i) :
                /\ Cleaned(i)[f].t \in {"int", "float"} => Cleaned(i)[f].n >= 0
                /\ ( /\ f \in DOMAIN raw_input[i]
                     /\ raw_input[i][f].t \in {"int", "float"}
                     /\ raw_input[i][f].n < 0 )
                   => Hundredths(Cleaned(i)[f]) = -Hundredths(raw_input[i][f])

\* the field does not pass the validation the cleaner applies to it
FailsValidation(f, v) ==
    CASE f \in Range(date_fields) ->
             \/ v.t = "str" /\ v.s # <<>> /\ ~IsDateText(v.s)
             \/ v.t = "inf"
      [] f \in Range(code_fields) ->
             v.t = "str" /\ v.s # <<>> /\ ~valid_code(normalize_code(v))
      [] f \in Range(numeric_fields) ->
             \/ v.t = "str" /\ parse_numeric(numeric_chars(v.s)).exc # "none"
             \/ v.t = "obj"
      [] f = "flight_number" ->
             \/ v.t = "str" /\ v.s # <<>> /\ SelectSeq(v.s, isdigit) = <<>>
             \/ v.t \in {"inf", "obj"}
      [] OTHER -> FALSE

\* on key g the two dicts agree
SameAt(c, d, g) ==
    /\ (g \in DOMAIN c) = (g \in DOMAIN d)
    /\ g \in DOMAIN c => c[g] = d[g]

\* C9: a field that fails validation is removed, its value is kept under
\* <field>_raw, and the record is kept with its other fields cleaned as they
\* are when the failing field is not there.  (A flight_duration that was
\* removed may come back derived from the two timestamps.)
C9_FailedFieldQuarantined ==
    \A i \in 1..Len(raw_input) :
        Processed(i) =>
            \A f \in DOMAIN raw_input[i] :
                FailsValidation(f, raw_input[i][f]) =>
                    /\ Kept(i)
                    /\ f \notin DOMAIN Cleaned(i) \/ f = "flight_duration"
                    /\ RawKey(f) \in DOMAIN Cleaned(i)
                    /\ Cleaned(i)[RawKey(f)] = raw_input[i][f]
                    /\ \A g \in DOMAIN raw_input[i] \ {f} :
                          /\ SameAt(Cleaned(i), clean_flight(Del(raw_input[i], f)).rec, g)
                          /\ SameAt(Cleaned(i), clean_flight(Del(raw_input[i], f)).rec,
                                    RawKey(g))

\* what C10 expects: the code without its surrounding spaces, in upper case
ExpectedCode(q) ==
    LET inner == {i \in 1..Len(q) : q[i] # " "}
        lo == CHOOSE i \in inner : \A j \in inner : i <= j
        hi == CHOOSE i \in inner : \A j \in inner : i >= j
        core == SubSeq(q, lo, hi)
    IN [i \in 1..Len(core) |->
            IF \E k \in 1..Len(LowerSeq) : LowerSeq[k] = core[i]
            THEN UpperSeq[CHOOSE k \in 1..Len(LowerSeq) : LowerSeq[k] = core[i]]
            ELSE core[i]]

\* a code that is valid once trimmed: 2 to 4 letters between the spaces
NormalisableCode(q) ==
    /\ \E i \in 1..Len(q) : q[i] # " "
    /\ Len(ExpectedCode(q)) \in 2..4
    /\ \A i \in 1..Len(ExpectedCode(q)) : ExpectedCode(q)[i] \in Range(UpperSeq)

\* a number written with a currency symbol, thousands separators, a sign and
\* at most one decimal point
NumericText(q) ==
    /\ \A i \in 1..Len(q) : q[i] \in Range(DigitSeq) \cup {"$", ",", ".", "-"}
    /\ \E i \in 1..Len(q) : q[i] \in Range(DigitSeq)
    /\ Cardinality({i \in 1..Len(q) : q[i] = "."}) <= 1
    /\ \A i \in 1..Len(q) : q[i] = "-" => \A j \in 1..(i - 1) : q[j] = "$"

\* the hundredths of the magnitude the text denotes
ExpectedHundredths(q) ==
    LET dots == {i \in 1..Len(q) : q[i] = "."}
        dot == IF dots = {} THEN Len(q) + 1 ELSE CHOOSE i \in dots : TRUE
        ip == SelectSeq(SubSeq(q, 1, dot - 1), LAMBDA c : c \in Range(DigitSeq))
        fp == SubSeq(SubSeq(q, dot + 1, Len(q)) \o <<"0", "0">>, 1, 2)
    IN DigitsVal(ip) * 100 + DigitsVal(fp)

ExpectedCabin(q) ==
    CASE ExpectedCode(q) \in {<<"F">>, <<"A">>, <<"P">>} -> <<"F", "i", "r", "s", "t">>
      [] ExpectedCode(q) \in {<<"J">>, <<"C">>, <<"D">>, <<"I">>, <<"Z">>} ->
             <<"B", "u", "s", "i", "n", "e", "s", "s">>
      [] ExpectedCode(q) \in {<<"W">>, <<"E">>, <<"Y">>, <<"B">>, <<"M">>, <<"H">>,
                              <<"Q">>, <<"K">>, <<"L">>, <<"V">>, <<"S">>, <<"N">>} ->
             <<"E", "c", "o", "n", "o", "m", "y">>
      [] OTHER -> <<>>

\* C10: a valid field that is not normalised comes out normalised and with
\* no _raw key: a code is trimmed and upper-cased; a numeric string with a
\* currency symbol or thousands separators becomes a float when it has a
\* decimal point and an int otherwise; a booking class letter sets
\* cabin_class to First, Business or Economy by the fixed letter sets, and
\* any other booking class leaves cabin_class unset.
C10_ValidFieldNormalised ==
    \A i \in 1..Len(raw_input) :
        (Processed(i) /\ Kept(i)) =>
            LET raw == raw_input[i]
                c == Cleaned(i)
            IN /\ \A f \in Range(code_fields) \cap DOMAIN raw :
                      (raw[f].t = "str" /\ NormalisableCode(raw[f].s)) =>
                          /\ f \in DOMAIN c
                          /\ c[f] = PyStr(ExpectedCode(raw[f].s))
                          /\ RawKey(f) \notin DOMAIN c
               /\ \A f \in Range(numeric_fields) \cap DOMAIN raw :
                      (raw[f].t = "str" /\ NumericText(raw[f].s)) =>
                          /\ f \in DOMAIN c
                          /\ c[f].t = IF \E k \in 1..Len(raw[f].s) : raw[f].s[k] = "."
                                      THEN "float" ELSE "int"
                          /\ c[f].n = IF c[f].t = "float"
                                      THEN ExpectedHundredths(raw[f].s)
                                      ELSE ExpectedHundredths(raw[f].s) \div 100
                          /\ RawKey(f) \notin DOMAIN c
               /\ ("booking_class" \in DOMAIN raw /\ raw["booking_class"].t = "str") =>
                      /\ c["booking_class"] = raw["booking_class"]
                      /\ IF Len(raw["booking_class"].s) = 1
                            /\ ExpectedCabin(raw["booking_class"].s) # <<>>
                         THEN /\ "cabin_class" \in DOMAIN c
                              /\ c["cabin_class"] =
                                     PyStr(ExpectedCabin(raw["booking_class"].s))
                         ELSE "cabin_class" \notin DOMAIN c

C10_Witness ==
    /\ cpc = "done"
    /\ Len(raw_input) = 1
    /\ Kept(1)
    /\ DOMAIN raw_input[1] = {"origin", "price"}
    /\ raw_input[1]["origin"] = PyStr(<<" ", "s", "y", "d", " ">>)
    /\ raw_input[1]["price"] = PyStr(<<"$", "1", ".", "5">>)
    /\ Cleaned(1)["origin"] = PyStr(<<"S", "Y", "D">>)
    /\ Cleaned(1)["price"] = PyFloat(150)
    /\ DOMAIN Cleaned(1) = {"origin", "price", "id"}

(***************************************************************************)
(* BaseApiClient: properties                                               *)
(***************************************************************************)

\* attempt i of the call in progress failed
AttemptFailed(i) == AttemptError(api.attempts[i]) # NoError

\* the requests sent within the window that ends with request i, before it
SentInWindow(i) ==
    {j \in 1..(i - 1) : api.sent[j] > api.sent[i] - api.rate_limit[2]}

\* C11: with rate_limit = (N, W), a request is never sent while N requests
\* have already been sent in the current window: the client waits first.
C11_WaitsWhenExhausted ==
    api.rate_limit # NoRateLimit =>
        \A i \in 1..Len(api.sent) : Cardinality(SentInWindow(i)) < api.rate_limit[1]

\* C12: when all max_retries + 1 attempts have failed, the call returns the
\* payload of _get_mock_data if use_mock_fallback, and otherwise raises an
\* ApiClientError that carries the HTTP status and the response body, never
\* a transport exception.
C12_ExhaustedOutcome ==
    ( /\ api.pc = "done"
      /\ Len(api.attempts) = api.max_retries + 1
      /\ \A i \in 1..Len(api.attempts) : AttemptFailed(i) )
    => /\ api.use_mock_fallback => api.outcome.kind = "mock"
       /\ ~api.use_mock_fallback =>
             /\ api.outcome.kind = "raise"
             /\ api.outcome.exc.kind \in {"ApiClientError", "RateLimitExceededError"}
             /\ api.outcome.exc.status_code # 0
             /\ api.outcome.exc.details

\* C20: _make_request stops at the first attempt that succeeds, retries every
\* failed attempt up to max_retries + 1 attempts in all, and before the retry
\* that follows the k-th failed attempt (k = 0, 1, ...), if that was not a
\* 429, waits retry_delay * 2^k.
C20_RetryWithBackoff ==
    api.pc = "done" =>
        /\ Len(api.attempts) <= api.max_retries + 1
        /\ \A i \in 1..(Len(api.attempts) - 1) : AttemptFailed(i)
        /\ (Len(api.attempts) > 0 /\ AttemptFailed(Len(api.attempts))) =>
              /\ Len(api.attempts) = api.max_retries + 1
              /\ Len(api.sleeps) = api.max_retries
        /\ \A k \in 1..Len(api.sleeps) :
              api.attempts[k].status_code # 429 =>
                  api.sleeps[k] = api.retry_delay * Pow2(k - 1)

(***************************************************************************)
(* DataProcessor: properties                                               *)
(***************************************************************************)

\* the rows of the result that hold an injected outlier
Outliers == {i \in 1..Len(series.result) :
                series.result[i].price \in {HighPrice, LowPrice}}

\* C13: in a time-ordered series with a stable baseline and two injected
\* outliers, one far above and one far below (the first of them after a full
\* window of baseline prices), detect_price_anomalies with window 7 and
\* threshold 2.0 flags the two outliers and no other record.
C13_FlagsExactlyOutliers ==
    ( /\ series.pc = "done"
      /\ Cardinality(Outliers) = 2
      /\ \A i \in Outliers : i >= series.window )
    => \A i \in 1..Len(series.result) :
           series.result[i].is_anomaly <=> i \in Outliers

\* the price of the records increases over time
PriceIncreasesOverTime(flights) ==
    \A i, j \in 1..Len(flights) :
        flights[i].departure_time < flights[j].departure_time
            => flights[i].price < flights[j].price

\* C14: for records whose price increases over time, the mean price per
\* bucket returned by calculate_market_trends, read in bucket order, is
\* non-decreasing from each bucket to the next.
C14_MeanNonDecreasing ==
    ( /\ trend.pc = "done"
      /\ PriceIncreasesOverTime(trend.flights) )
    => \A k \in 1..(Len(trend.result) - 1) :
           mean_le(trend.result[k], trend.result[k + 1])

(***************************************************************************)
(* RateLimiter: properties                                                 *)
(***************************************************************************)

\* the earlier calls under the key of call i made less than `window`
\* seconds before it
CallsInWindow(i) ==
    {j \in 1..(i - 1) :
        /\ limiter.log[j].key = limiter.log[i].key
        /\ limiter.log[i].time - limiter.log[j].time < limiter.window}

\* C19: check_rate_limit raises RateLimitExceeded for every request beyond
\* `limit` made under the same key within one window, and accepts a request
\* for the key once the window of the earlier requests has expired.
C19_RejectsBeyondLimit ==
    \A i \in 1..Len(limiter.log) :
        /\ Cardinality(CallsInWindow(i)) >= limiter.limit
              => limiter.log[i].outcome = "RateLimitExceeded"
        /\ (\A j \in 1..(i - 1) :
               limiter.log[j].key = limiter.log[i].key
                   => limiter.log[i].time - limiter.log[j].time > limiter.window)
              => limiter.log[i].outcome = "returned"

(***************************************************************************)
(* MockDataProvider: properties                                            *)
(***************************************************************************)

\* C16: no operation of MockDataProvider raises, whatever its arguments,
\* an airport code missing from the reference list included.
C16_MockNeverRaises ==
    mockp.pc = "done" => mockp.outcome = "returned"

\* C17: every flight of get_flights has booked_seats between 50% and 90% of
\* capacity, booked_seats + available_seats = capacity, available_seats in
\* 0..capacity, capacity within the range of its aircraft, and price > 0.
C17_FlightInvariants ==
    \A i \in 1..Len(mockp.flights) :
        LET f == mockp.flights[i] IN
        /\ 2 * f.booked_seats >= f.capacity
        /\ 10 * f.booked_seats <= 9 * f.capacity
        /\ f.booked_seats + f.available_seats = f.capacity
        /\ f.available_seats >= 0
        /\ f.available_seats <= f.capacity
        /\ f.capacity >= AIRCRAFT_TYPES[f.aircraft][1]
        /\ f.capacity <= AIRCRAFT_TYPES[f.aircraft][2]
        /\ f.price > 0

\* C18 as stated: every flight of get_flights(date_from, date_to, limit)
\* departs within [date_from, date_to], and at most limit flights are
\* returned.
C18_WithinRequestedRange ==
    mockp.op = "get_flights" =>
        /\ \A i \in 1..Len(mockp.flights) :
              /\ mockp.flights[i].departure_time >= mockp.args.date_from
              /\ mockp.flights[i].departure_time <= mockp.args.date_to
        /\ Len(mockp.flights) <= mockp.args.limit

day_of(d) == d \div HoursPerDay

\* C18, amended: every flight of get_flights(date_from, date_to, limit)
\* departs between 06:00 and 22:59 on a calendar day from the day of
\* date_from to the day of date_to, and at most limit flights are returned.
C18_WithinRequestedDays ==
    mockp.op = "get_flights" =>
        /\ \A i \in 1..Len(mockp.flights) :
              LET t == mockp.flights[i].departure_time IN
              /\ day_of(t) >= day_of(mockp.args.date_from)
              /\ day_of(t) <= day_of(mockp.args.date_to)
              /\ t % HoursPerDay >= 6
              /\ t % HoursPerDay <= 22
        /\ Len(mockp.flights) <= mockp.args.limit

\* get_flights returned as many flights as the limit allows, one of them
\* departing after the instant date_to on the day of date_to
C18_Witness ==
    /\ mockp.op = "get_flights"
    /\ mockp.pc = "done"
    /\ Len(mockp.flights) = MaxLimit
    /\ \E i \in 1..Len(mockp.flights) :
          mockp.flights[i].departure_time > mockp.args.date_to

(***************************************************************************)
(* DemandPredictor: properties                                             *)
(***************************************************************************)

\* a frame with rows and the required departure_time column
UsableFrame(X) == X.departure_time /\ X.rows > 0

\* C15: after p.train on a usable frame, p.save and DemandPredictor.load of
\* the file written, the loaded predictor holds the model type, feature
\* processor, regressor, feature lists and target column of p, and for a
\* usable frame X p.predict(X) and the loaded predictor's predict(X) both
\* return predictions, and the same ones.
C15_SaveLoadRoundTrip ==
    ( /\ predictor.pc = "compared"
      /\ UsableFrame(predictor.train_X)
      /\ UsableFrame(predictor.X) )
    => /\ predictor.loaded = predictor.p
       /\ predictor.original_predictions \notin Exceptions
       /\ predictor.loaded_predictions = predictor.original_predictions

(***************************************************************************)
(* BaseApiClient: properties of the wait after a 429 and of parse failures *)
(***************************************************************************)

\* the wait the claim expects after attempt k of the call answered 429:
\* the Retry-After header when the response carries one, else the backoff
ExpectedWait(k) ==
    IF api.attempts[k].retry_after # 0
    THEN api.attempts[k].retry_after
    ELSE api.retry_delay * Pow2(k - 1)

\* C21: after a 429 response that leaves retries, _make_request waits the
\* Retry-After value of the response when the header is present, and
\* retry_delay * 2^attempt when it is absent, and then makes the next
\* attempt.
C21_WaitAfter429 ==
    api.pc = "done" =>
        \A k \in 1..Len(api.attempts) :
            (api.attempts[k].status_code = 429 /\ k <= api.max_retries) =>
                /\ Len(api.attempts) > k
                /\ Len(api.sleeps) >= k
                /\ api.sleeps[k] = ExpectedWait(k)

\* attempt k of the call got a 2xx response whose body is not JSON
ParseFailure(k) ==
    /\ api.attempts[k].kind = "response"
    /\ api.attempts[k].status_code < 400
    /\ ~api.attempts[k].json

\* C22: a response whose body cannot be parsed is not retried: it is the
\* last attempt of the call, which then returns the fallback payload, or
\* raises the ApiClientError when fallback is disabled.
C22_ParseFailureNotRetried ==
    api.pc = "done" =>
        \A k \in 1..Len(api.attempts) :
            ParseFailure(k) =>
                /\ k = Len(api.attempts)
                /\ Len(api.sleeps) < k
                /\ api.use_mock_fallback => api.outcome.kind = "mock"
                /\ ~api.use_mock_fallback =>
                      /\ api.outcome.kind = "raise"
                      /\ api.outcome.exc.kind = "ApiClientError"

(***************************************************************************)
(* DataCleaner: properties of the code fields and of the input dicts       *)
(***************************************************************************)

\* an upper-case string of 2 to 4 letters
UpperCode(v) == v.t = "str" /\ valid_code(v.s) /\ upper(v.s) = v.s

\* C26: after cleaning, a value left under origin, destination,
\* operating_airline or marketing_airline is an upper-case string of 2 to 4
\* letters, and every input value that does not normalise to one (an empty
\* or non-string value included) has been moved to <field>_raw.
C26_CodeFieldsValid ==
    \A i \in 1..Len(raw_input) :
        (Processed(i) /\ Kept(i)) =>
            \A f \in Range(code_fields) :
                /\ f \in DOMAIN Cleaned(i) => UpperCode(Cleaned(i)[f])
                /\ ( /\ f \in DOMAIN raw_input[i]
                     /\ ~( /\ raw_input[i][f].t = "str"
                           /\ valid_code(normalize_code(raw_input[i][f])) ) )
                   => /\ f \notin DOMAIN Cleaned(i)
                      /\ RawKey(f) \in DOMAIN Cleaned(i)

\* C27: clean_flight_data leaves the dicts passed to it as they were, and
\* the cleaned form of a record is a function of that record alone.
C27_InputUntouched ==
    cpc = "done" =>
        /\ flight_data = raw_input
        /\ \A i \in 1..Len(raw_input) :
              Kept(i) => \E k \in 1..Len(cleaned_data) :
                            cleaned_data[k] = clean_flight(raw_input[i]).rec


(***************************************************************************)
(* AmadeusClient: properties                                               *)
(***************************************************************************)

\* the callers that _get_access_token has just handed a token to
Granted == {c \in Callers : amadeus.callers[c].pc = "api"}

\* a token was cached when the caller asked, expiring more than 5 minutes
\* later
CachedAndFresh(g) ==
    /\ g.prior_token # 0
    /\ g.prior_expiry # Unset
    /\ g.prior_expiry > g.decided_at + ExpiryMargin

\* the cached token is returned without a network call exactly when it
\* expires more than 5 minutes later
ReturnsCachedExactlyWhenFresh(g) ==
    /\ g.cached <=> CachedAndFresh(g)
    /\ g.cached => g.token = g.prior_token /\ g.now = g.decided_at

\* a requested token is the cached one, expiring expires_in after its arrival
RequestedTokenCached(g) ==
    ~g.cached =>
        /\ g.token # g.prior_token
        /\ g.cached_token = g.token
        /\ g.cached_expiry = g.now + g.expires_in

C24_SingleFlightRefresh ==
    Cardinality({c \in Callers : amadeus.callers[c].pc = "token"}) <= 1

\* C25: when the credentials are missing, the token request fails or the API
\* request fails, a call with use_mock_fallback=true returns mock data and
\* raises nothing, and a call with use_mock_fallback=false raises
\* AmadeusClientError.
C25_FallbackOrTypedError ==
    \A c \in Callers :
        LET cr == amadeus.callers[c] IN
        (cr.pc = "done" /\ cr.failure # "none") =>
            /\ cr.use_mock_fallback => cr.outcome = "mock"
            /\ ~cr.use_mock_fallback => cr.outcome = "AmadeusClientError"


(***************************************************************************)
(* DemandPredictor: properties of the estimator pair and of the hold-out   *)
(***************************************************************************)

\* both estimators were fitted by the same train call, or both by none
SameRun(pair) == pair.model.fitted_by = pair.feature_processor.fitted_by

\* both estimators were read from the same saved bundle
SameBundle(pair) ==
    /\ pair.model.bundle > 0
    /\ pair.model.bundle = pair.feature_processor.bundle
    /\ pair.model.made_by = pair.feature_processor.made_by

HoldOutAsked ==
    /\ trainer.runs > 0
    /\ trainer.last.validation_split > 0
    /\ Len(trainer.last.X) >= 2
    /\ trainer.last.y_fits

\* C29: train with validation_split > 0 evaluates on a chronological
\* hold-out whatever the order of the rows: no validation row departs before
\* a training row, and every row is still paired with its own target.
C29_ChronologicalHoldOut ==
    HoldOutAsked =>
        /\ trainer.last.exc = "none"
        /\ trainer.last.validated
        /\ trainer.last.X_val # <<>>
        /\ \A i \in 1..Len(trainer.last.X_train),
              j \in 1..Len(trainer.last.X_val) :
              trainer.last.X_val[j].departure_time
                  >= trainer.last.X_train[i].departure_time
        /\ \A i \in 1..Len(trainer.last.X_train) :
              \E k \in 1..Len(trainer.last.X) :
                  trainer.last.X[k] = trainer.last.X_train[i]


(***************************************************************************)
(* DataService: the source tag of live providers                           *)
(***************************************************************************)

\* the sources backed by a provider's API
LiveProviders == DataSource \ {"MOCK"}

\* C30: a result tagged with the name of a live provider as its source
\* carries data returned by that provider's live API, never the mock payload
\* the provider's client generates itself when its request fails.
C30_LiveSourceMeansLiveData ==
    ( /\ pc = "done"
      /\ InChain
      /\ raised = "none"
      /\ result.source \in LiveProviders )
    => result.origin = result.source

====
